---- MODULE Spec2Model ----
(***************************************************************************)
(* Autonomous multi-agent marketplace simulation: the LangGraph state      *)
(* machine of graph/orchestrator.ts (initialize_users -> autonomous_loop   *)
(* -> cleanup -> finalize), the availability resolver, the action policy   *)
(* and the per-role executors of agents/*.ts.                              *)
(*                                                                         *)
(* Entities carry their list position as id (every list is append-only).   *)
(* Only the length of the error list is observable to the control flow, so *)
(* `errors` is that length.  The backend holds exactly the records this    *)
(* run created; a tradesperson's profile id and tradesperson-profile id    *)
(* are both the actor id (createTestUser sets id = profileId).             *)
(***************************************************************************)
EXTENDS Integers, Sequences, FiniteSets, TLC

VARIABLES
    pc,                 \* graph position: the node about to run
    simulationConfig,   \* SimulationConfig of the run
    testUsers,          \* roster, in creation order
    jobs, applications, offers, reviews,
    errors,             \* state.errors.length
    status,             \* "idle" | "running" | "completed" | "failed"
    currentIteration,
    waitingAgents,      \* Set<userId>
    lastActionByAgent,  \* Map<userId, iteration>
    shuffledAgents,     \* actors of the current iteration still to be visited
    anyActionTaken,     \* local of autonomousLoop
    skippedAgents,      \* actors whose latest turn ended at the stall test's continue
    goalsResult,        \* result of a stand-alone checkGoalsCompleted call ("none" before)
    actionHistory,      \* state.actionHistory: the ActionResult of every executed action
    messages,           \* state.messages.length
    actor,              \* the user a stand-alone resolver or policy call is made for
    llmResponse,        \* what the Decision Service answers to a stand-alone policy call
    availableResult,    \* result of a stand-alone getAvailableActions call
    decisionResult,     \* result of a stand-alone decideNextAction call
    currentScenario,    \* TestScenario of a scripted run (NoScenario: null)
    currentStepIndex,   \* index of the next step of the scripted run
    skipCleanup,        \* options.skipCleanup of runScenario
    deletedUsers        \* ids of the users deleteTestUser has deleted

vars == <<pc, simulationConfig, testUsers, jobs, applications, offers, reviews,
          errors, status, currentIteration, waitingAgents, lastActionByAgent,
          shuffledAgents, anyActionTaken, skippedAgents, goalsResult,
          actionHistory, messages, actor, llmResponse, availableResult, decisionResult,
          currentScenario, currentStepIndex, skipCleanup, deletedUsers>>

\* the variables only a scripted run writes
scenarioVars == <<currentScenario, currentStepIndex, skipCleanup, deletedUsers>>

\* the variables only a stand-alone call of the resolver or the policy writes
callVars == <<actor, llmResponse, availableResult, decisionResult>>

----------------------------------------------------------------------------
(* Bounds of the model *)

MaxHomeowners == 1          \* largest homeownerCount requested
MaxBusinesses == 1          \* largest businessCount requested
MaxSurplus == 1             \* requested tradespersons beyond each error limit
MaxProviders == 1           \* most tradespersons whose creation succeeds
MaxAgents == 2              \* largest roster requested by the roster configurations
MaxIter == 2                \* largest maxIterations configured
MaxIterRoster == 1          \* largest maxIterations of the roster configurations
MaxRosterTurns == 2         \* most actor turns requested by a roster configuration
MaxIterLive == 2            \* largest maxIterations of the runs checked for termination
MaxIterErr == 1             \* largest maxIterations of the many-failure configurations
MaxWait == 2                \* largest maxWaitCycles configured
MaxThreshold == 1           \* largest goal threshold configured
MaxCount == 2               \* largest list length and threshold of a stand-alone goal check
MaxOfferList == 2           \* longest offer list of a stand-alone goal check
MaxIterE2E == 8             \* maxIterations of the end-to-end run
MaxWorldJobs == 1           \* most jobs of a World State drawn for a stand-alone call
MaxPosterApps == 1          \* most applications of a World State drawn for a job-poster
MaxProviderApps == 5        \* most applications of a World State drawn for a provider
MaxWorldOffers == 1         \* most offers of a World State drawn for a stand-alone call
MaxWorldReviews == 1        \* most reviews of a World State drawn for a stand-alone call
MaxFlowTurns == 7           \* most executed actions of a sequence of turns
MaxFlowJobs == 1            \* most jobs created in a sequence of turns
MaxFlowOffers == 2          \* most offers made in a sequence of turns
MaxBudget == 12             \* largest job budget drawn for a stand-alone cost estimate
MaxCostJobs == 2            \* most jobs of a World State drawn for a cost estimate
MaxSteps == 3               \* most steps of a scripted scenario
MaxRespondOffers == 2       \* most offers of a World State drawn for an answered offer
MaxViewJobs == 2            \* most jobs of a World State drawn for a view of applications

(* Program constants *)

ErrorCeiling == 20          \* shouldContinue: errors.length > 20
FinalizeErrorLimit == 10    \* finalize: errors.length > 10
ApplicationCap == 5         \* getAvailableTradespersonActionsForUser: < 5

OfferStatuses == {"PENDING", "ACCEPTED", "REJECTED", "COMPLETED", "WITHDRAWN", "EXPIRED"}

----------------------------------------------------------------------------
(* Helpers *)

Min(S) == CHOOSE x \in S : \A y \in S : x <= y

\* Array.prototype.findIndex / find: position of the first match, 0 if none
FindFirst(s, Test(_)) ==
    LET I == {i \in 1..Len(s) : Test(s[i])}
    IN IF I = {} THEN 0 ELSE Min(I)

\* Array.prototype.filter(...).length
CountIf(s, Test(_)) == Cardinality({i \in 1..Len(s) : Test(s[i])})

Includes(s, x) == \E i \in 1..Len(s) : s[i] = x

\* all orders of a list: [...testUsers].sort(() => Math.random() - 0.5)
Orders(n) ==
    {p \in [1..n -> 1..n] : \A i, j \in 1..n : i # j => p[i] # p[j]}

Shuffles(s) == {[i \in 1..Len(s) |-> s[p[i]]] : p \in Orders(Len(s))}

\* Math.random() in halves: 0 stands for 0.0 and 1 for 0.5
RandomDraws == {0, 1}

\* the draw of Math.random a generated job budget is made from, in halves
BudgetDraws == {1}

\* budget of the jobs of a drawn World State
ScenarioBudget == 300

\* the ids, the rating, the budget and the estimated cost an action's params
\* may carry (0: absent)
EmptyParams == [jobId |-> 0, tradespersonProfileId |-> 0, applicationId |-> 0, offerId |-> 0,
                rating |-> 0, budget |-> 0, estimatedCost |-> 0]

\* currentScenario: null
NoScenario == [name |-> "null", steps |-> <<>>]

\* createInitialState's scenario fields; no user is deleted yet
NoScenarioRun ==
    /\ currentScenario = NoScenario
    /\ currentStepIndex = 0
    /\ skipCleanup = FALSE
    /\ deletedUsers = {}

\* the tradesperson-profile id createTestUser stores for a role
ProfileOf(role, id) == IF role = "tradesperson" THEN id ELSE 0

----------------------------------------------------------------------------
(* Availability Resolver: agents/autonomous.agent.ts *)

\* a world is the part of the state the resolver, policy and executors read
World == [jobs |-> jobs, applications |-> applications, offers |-> offers,
          reviews |-> reviews, testUsers |-> testUsers]

MyJobIds(w, user) == {w.jobs[i].id : i \in {k \in 1..Len(w.jobs) : w.jobs[k].createdBy = user.id}}

\* variant: a COMPLETED offer counts whether or not it has a review
HasUnreviewedCompleted_anyCompleted(w, user) ==
    \E i \in 1..Len(w.offers) :
        /\ w.offers[i].homeownerId = user.id
        /\ w.offers[i].status = "COMPLETED"

HasUnreviewedCompleted(w, user) ==
    \E i \in 1..Len(w.offers) :
        /\ w.offers[i].homeownerId = user.id
        /\ w.offers[i].status = "COMPLETED"
        /\ \A r \in 1..Len(w.reviews) : w.reviews[r].offerId # w.offers[i].id

\* variant: an accepted offer of any job-poster opens complete_job
getAvailableHomeownerActionsForUser_anyOffer(w, user) ==
    LET myJobIds == MyJobIds(w, user)
        applicationsToMyJobs == CountIf(w.applications, LAMBDA a : a.jobId \in myJobIds)
        acceptedOffers == CountIf(w.offers, LAMBDA o : o.status = "ACCEPTED")
    IN  <<"create_job">>
        \o (IF myJobIds # {} THEN <<"view_applications">> ELSE <<>>)
        \o (IF applicationsToMyJobs > 0 THEN <<"shortlist_applicant", "make_offer">> ELSE <<>>)
        \o (IF acceptedOffers > 0 THEN <<"complete_job">> ELSE <<>>)
        \o (IF HasUnreviewedCompleted(w, user) THEN <<"leave_review">> ELSE <<>>)

getAvailableHomeownerActionsForUser(w, user) ==
    LET myJobIds == MyJobIds(w, user)
        applicationsToMyJobs == CountIf(w.applications, LAMBDA a : a.jobId \in myJobIds)
        acceptedOffers == CountIf(w.offers,
                             LAMBDA o : o.homeownerId = user.id /\ o.status = "ACCEPTED")
    IN  <<"create_job">>
        \o (IF myJobIds # {} THEN <<"view_applications">> ELSE <<>>)
        \o (IF applicationsToMyJobs > 0 THEN <<"shortlist_applicant", "make_offer">> ELSE <<>>)
        \o (IF acceptedOffers > 0 THEN <<"complete_job">> ELSE <<>>)
        \o (IF HasUnreviewedCompleted(w, user) THEN <<"leave_review">> ELSE <<>>)

\* variant: the application cap admits a fifth application's successor
getAvailableTradespersonActionsForUser_capInclusive(w, user) ==
    LET myApplications == CountIf(w.applications, LAMBDA a : a.applicantId = user.id)
        pendingOffers == CountIf(w.offers,
                            LAMBDA o : o.tradespersonId = user.id /\ o.status = "PENDING")
    IN  <<"browse_jobs", "view_offers", "view_reviews">>
        \o (IF myApplications <= ApplicationCap THEN <<"apply_to_job">> ELSE <<>>)
        \o (IF pendingOffers > 0 THEN <<"accept_offer", "reject_offer">> ELSE <<>>)

\* variant: apply_to_job is offered whatever the number of applications
getAvailableTradespersonActionsForUser_noCap(w, user) ==
    LET pendingOffers == CountIf(w.offers,
                            LAMBDA o : o.tradespersonId = user.id /\ o.status = "PENDING")
    IN  <<"browse_jobs", "view_offers", "view_reviews", "apply_to_job">>
        \o (IF pendingOffers > 0 THEN <<"accept_offer", "reject_offer">> ELSE <<>>)

\* variant: a pending offer to any provider opens accept_offer and reject_offer
getAvailableTradespersonActionsForUser_anyPending(w, user) ==
    LET myApplications == CountIf(w.applications, LAMBDA a : a.applicantId = user.id)
        pendingOffers == CountIf(w.offers, LAMBDA o : o.status = "PENDING")
    IN  <<"browse_jobs", "view_offers", "view_reviews">>
        \o (IF myApplications < ApplicationCap THEN <<"apply_to_job">> ELSE <<>>)
        \o (IF pendingOffers > 0 THEN <<"accept_offer", "reject_offer">> ELSE <<>>)

getAvailableTradespersonActionsForUser(w, user) ==
    LET myApplications == CountIf(w.applications, LAMBDA a : a.applicantId = user.id)
        pendingOffers == CountIf(w.offers,
                            LAMBDA o : o.tradespersonId = user.id /\ o.status = "PENDING")
    IN  <<"browse_jobs", "view_offers", "view_reviews">>
        \o (IF myApplications < ApplicationCap THEN <<"apply_to_job">> ELSE <<>>)
        \o (IF pendingOffers > 0 THEN <<"accept_offer", "reject_offer">> ELSE <<>>)

\* variant: a business is offered shortlist_applicant along with make_offer
getAvailableBusinessActionsForUser_shortlist(w, user) ==
    LET myJobIds == MyJobIds(w, user)
        applicationsToMyJobs == CountIf(w.applications, LAMBDA a : a.jobId \in myJobIds)
        acceptedOffers == CountIf(w.offers,
                             LAMBDA o : o.homeownerId = user.id /\ o.status = "ACCEPTED")
    IN  <<"create_job", "view_offers">>
        \o (IF myJobIds # {} THEN <<"view_applications">> ELSE <<>>)
        \o (IF applicationsToMyJobs > 0 THEN <<"shortlist_applicant", "make_offer">> ELSE <<>>)
        \o (IF acceptedOffers > 0 THEN <<"complete_job">> ELSE <<>>)
        \o (IF HasUnreviewedCompleted(w, user) THEN <<"leave_review">> ELSE <<>>)

getAvailableBusinessActionsForUser(w, user) ==
    LET myJobIds == MyJobIds(w, user)
        applicationsToMyJobs == CountIf(w.applications, LAMBDA a : a.jobId \in myJobIds)
        acceptedOffers == CountIf(w.offers,
                             LAMBDA o : o.homeownerId = user.id /\ o.status = "ACCEPTED")
    IN  <<"create_job", "view_offers">>
        \o (IF myJobIds # {} THEN <<"view_applications">> ELSE <<>>)
        \o (IF applicationsToMyJobs > 0 THEN <<"make_offer">> ELSE <<>>)
        \o (IF acceptedOffers > 0 THEN <<"complete_job">> ELSE <<>>)
        \o (IF HasUnreviewedCompleted(w, user) THEN <<"leave_review">> ELSE <<>>)

getAvailableActions(w, user) ==
    CASE user.role = "homeowner" -> getAvailableHomeownerActionsForUser(w, user)
      [] user.role = "tradesperson" -> getAvailableTradespersonActionsForUser(w, user)
      [] user.role = "business" -> getAvailableBusinessActionsForUser(w, user)
      [] OTHER -> <<>>

----------------------------------------------------------------------------
(* Action Policy: agents/autonomous.agent.ts *)

\* random: the draw of Math.random the rating and the estimated cost are made
\* from; Math.floor(budget * (0.85 + Math.random() * 0.2)) in hundredths
generateActionParams(w, user, action, random) ==
    LET myJobIds == MyJobIds(w, user)
        mine(o) == o.homeownerId = user.id \/ o.tradespersonId = user.id
    IN
    CASE action = "apply_to_job" ->
           LET j == FindFirst(w.jobs, LAMBDA job :
                        /\ job.status = "OPEN"
                        /\ ~\E a \in 1..Len(w.applications) :
                              /\ w.applications[a].applicantId = user.id
                              /\ w.applications[a].jobId = job.id
                        /\ job.createdBy # user.id)
           IN IF j # 0
              THEN [EmptyParams EXCEPT
                       !.jobId = w.jobs[j].id,
                       !.estimatedCost = (w.jobs[j].budget * (85 + 10 * random)) \div 100]
              ELSE EmptyParams
      [] action = "make_offer" ->
           LET a == FindFirst(w.applications, LAMBDA app :
                        app.jobId \in myJobIds /\ app.status \in {"UR", "S"})
           IN IF a = 0 THEN EmptyParams
              ELSE LET app == w.applications[a]
                       job == FindFirst(w.jobs, LAMBDA jb : jb.id = app.jobId)
                       u == FindFirst(w.testUsers, LAMBDA x : x.id = app.applicantId)
                       tp == IF app.tradespersonProfileId # 0 THEN app.tradespersonProfileId
                             ELSE IF u # 0 THEN w.testUsers[u].tradespersonProfileId ELSE 0
                   IN IF job # 0 /\ tp # 0
                      THEN [EmptyParams EXCEPT !.jobId = app.jobId,
                                               !.tradespersonProfileId = tp,
                                               !.applicationId = app.id]
                      ELSE EmptyParams
      [] action \in {"accept_offer", "reject_offer"} ->
           LET o == FindFirst(w.offers, LAMBDA of :
                        mine(of) /\ of.status = "PENDING" /\ of.tradespersonId = user.id)
           IN IF o # 0 THEN [EmptyParams EXCEPT !.offerId = w.offers[o].id] ELSE EmptyParams
      [] action = "complete_job" ->
           LET o == FindFirst(w.offers, LAMBDA of :
                        mine(of) /\ of.status = "ACCEPTED" /\ of.homeownerId = user.id)
           IN IF o # 0 THEN [EmptyParams EXCEPT !.offerId = w.offers[o].id] ELSE EmptyParams
      [] action = "leave_review" ->
           LET o == FindFirst(w.offers, LAMBDA of :
                        /\ mine(of) /\ of.status = "COMPLETED" /\ of.homeownerId = user.id
                        /\ \A r \in 1..Len(w.reviews) : w.reviews[r].offerId # of.id)
           IN IF o # 0 THEN [EmptyParams EXCEPT !.offerId = w.offers[o].id,
                                                !.rating = random + 4]
              ELSE EmptyParams
      [] action = "view_applications" ->
           LET j == FindFirst(w.jobs, LAMBDA job :
                        /\ job.createdBy = user.id
                        /\ \E a \in 1..Len(w.applications) : w.applications[a].jobId = job.id)
           IN IF j # 0 THEN [EmptyParams EXCEPT !.jobId = w.jobs[j].id] ELSE EmptyParams
      [] OTHER -> EmptyParams

\* variant: job-posters put create_job ahead of view_applications
priorityOrder_createFirst(role) ==
    CASE role = "homeowner" ->
           <<"leave_review", "complete_job", "make_offer", "create_job", "view_applications">>
      [] role = "tradesperson" ->
           <<"accept_offer", "apply_to_job", "browse_jobs", "view_offers", "view_reviews">>
      [] role = "business" ->
           <<"leave_review", "complete_job", "make_offer", "create_job",
             "view_applications", "view_offers">>
      [] OTHER -> <<>>

\* variant: job-posters put make_offer ahead of complete_job and leave_review
priorityOrder_offerFirst(role) ==
    CASE role = "homeowner" ->
           <<"make_offer", "leave_review", "complete_job", "view_applications", "create_job">>
      [] role = "tradesperson" ->
           <<"accept_offer", "apply_to_job", "browse_jobs", "view_offers", "view_reviews">>
      [] role = "business" ->
           <<"make_offer", "leave_review", "complete_job", "view_applications",
             "create_job", "view_offers">>
      [] OTHER -> <<>>

\* variant: a service-provider browses before it applies
priorityOrder_browseFirst(role) ==
    CASE role = "homeowner" ->
           <<"leave_review", "complete_job", "make_offer", "view_applications", "create_job">>
      [] role = "tradesperson" ->
           <<"accept_offer", "browse_jobs", "apply_to_job", "view_offers", "view_reviews">>
      [] role = "business" ->
           <<"leave_review", "complete_job", "make_offer", "view_applications",
             "create_job", "view_offers">>
      [] OTHER -> <<>>

priorityOrder(role) ==
    CASE role = "homeowner" ->
           <<"leave_review", "complete_job", "make_offer", "view_applications", "create_job">>
      [] role = "tradesperson" ->
           <<"accept_offer", "apply_to_job", "browse_jobs", "view_offers", "view_reviews">>
      [] role = "business" ->
           <<"leave_review", "complete_job", "make_offer", "view_applications",
             "create_job", "view_offers">>
      [] OTHER -> <<>>

Decision(action, params) == [action |-> action, params |-> params]
NoDecision == [action |-> "null", params |-> EmptyParams]

\* values before any stand-alone call
NoActor == [id |-> 0, role |-> "none", tradespersonProfileId |-> 0]
NoResponse == [kind |-> "none", action |-> "null", params |-> EmptyParams]

\* variant: the policy declines when it finds no candidate for the action
decideWithHeuristics_declines(w, user, availableActions, random) ==
    LET priorities == priorityOrder(user.role)
        k == FindFirst(priorities, LAMBDA a : Includes(availableActions, a))
    IN IF k # 0
       THEN IF priorities[k] \in {"apply_to_job", "make_offer", "accept_offer"}
               /\ generateActionParams(w, user, priorities[k], random) = EmptyParams
            THEN NoDecision
            ELSE Decision(priorities[k],
                          generateActionParams(w, user, priorities[k], random))
       ELSE IF Len(availableActions) > 0
            THEN Decision(availableActions[1],
                          generateActionParams(w, user, availableActions[1],
                                               random))
            ELSE NoDecision

decideWithHeuristics(w, user, availableActions, random) ==
    LET priorities == priorityOrder(user.role)
        k == FindFirst(priorities, LAMBDA a : Includes(availableActions, a))
    IN IF k # 0
       THEN Decision(priorities[k], generateActionParams(w, user, priorities[k], random))
       ELSE IF Len(availableActions) > 0
            THEN Decision(availableActions[1],
                          generateActionParams(w, user, availableActions[1],
                                               random))
            ELSE NoDecision

\* every action name of the three roles
ActionNames ==
    {"create_job", "view_applications", "shortlist_applicant", "make_offer",
     "complete_job", "leave_review", "browse_jobs", "apply_to_job", "view_offers",
     "accept_offer", "reject_offer", "view_reviews"}

\* what the call to the Decision Service may give: chat() throws, the text
\* does not parse, or the text parses to an action name (any role's action,
\* WAIT, or a name that is no action at all) with params left {} for the
\* system to fill in, as the prompt asks
LLMResponses ==
    {[kind |-> k, action |-> "null", params |-> EmptyParams] : k \in {"throws", "unparsable"}}
    \cup {[kind |-> "answer", action |-> a, params |-> EmptyParams] :
            a \in ActionNames \cup {"WAIT", "noop"}}

\* variant: the suggested action is returned without the availability test
decideNextActionWith_unvalidated(w, user, useLLM, response, random) ==
    LET availableActions == getAvailableActions(w, user)
    IN IF Len(availableActions) = 0 THEN NoDecision
       ELSE IF ~useLLM THEN decideWithHeuristics(w, user, availableActions, random)
       ELSE IF response.kind # "answer"
            THEN decideWithHeuristics(w, user, availableActions, random)
       ELSE IF response.action = "WAIT" THEN NoDecision
       ELSE Decision(response.action, response.params)

\* variant: an answer of WAIT is treated like any other unavailable name
decideNextActionWith_noWait(w, user, useLLM, response, random) ==
    LET availableActions == getAvailableActions(w, user)
    IN IF Len(availableActions) = 0 THEN NoDecision
       ELSE IF ~useLLM THEN decideWithHeuristics(w, user, availableActions, random)
       ELSE IF response.kind # "answer"
            THEN decideWithHeuristics(w, user, availableActions, random)
       ELSE IF ~Includes(availableActions, response.action)
            THEN decideWithHeuristics(w, user, availableActions, random)
       ELSE Decision(response.action, response.params)

\* decideNextAction for one outcome of the Decision Service call
decideNextActionWith(w, user, useLLM, response, random) ==
    LET availableActions == getAvailableActions(w, user)
    IN IF Len(availableActions) = 0 THEN NoDecision
       ELSE IF ~useLLM THEN decideWithHeuristics(w, user, availableActions, random)
       ELSE IF response.kind # "answer"
            THEN decideWithHeuristics(w, user, availableActions, random)
       ELSE IF response.action = "WAIT" THEN NoDecision
       ELSE IF ~Includes(availableActions, response.action)
            THEN decideWithHeuristics(w, user, availableActions, random)
       ELSE Decision(response.action, response.params)

\* concrete params the Decision Service may put in its answer: the ids of
\* entities of World State, under the key of the action they are for
LLMParams(w, action) ==
    CASE action \in {"apply_to_job", "view_applications"} ->
           {[EmptyParams EXCEPT !.jobId = w.jobs[j].id] : j \in 1..Len(w.jobs)}
      [] action = "shortlist_applicant" ->
           {[EmptyParams EXCEPT !.applicationId = w.applications[a].id] :
               a \in 1..Len(w.applications)}
      [] action = "make_offer" ->
           {LET app == w.applications[a]
                u == FindFirst(w.testUsers, LAMBDA x : x.id = app.applicantId)
            IN [EmptyParams EXCEPT
                  !.jobId = app.jobId,
                  !.tradespersonProfileId =
                      IF app.tradespersonProfileId # 0 THEN app.tradespersonProfileId
                      ELSE IF u # 0 THEN w.testUsers[u].tradespersonProfileId ELSE 0,
                  !.applicationId = app.id] : a \in 1..Len(w.applications)}
      [] action \in {"accept_offer", "reject_offer", "complete_job", "leave_review"} ->
           {[EmptyParams EXCEPT !.offerId = w.offers[o].id] : o \in 1..Len(w.offers)}
      [] OTHER -> {}

\* every outcome of the Decision Service call in World State w
LLMResponsesIn(w) ==
    LLMResponses
    \cup UNION {{[kind |-> "answer", action |-> a, params |-> p] : p \in LLMParams(w, a)} :
                  a \in ActionNames}

\* the decisions decideNextAction can return
decideNextAction(w, user, useLLM) ==
    {decideNextActionWith(w, user, useLLM, response, random) :
        response \in LLMResponsesIn(w), random \in RandomDraws}

----------------------------------------------------------------------------
(* Action Executor: the per-role agents.  Each operator yields the set of  *)
(* outcomes of one action; oks is the set of results the Action Tool       *)
(* Surface may give (TRUE: the call returns, FALSE: it throws).            *)

Outcome(w, success) ==
    [jobs |-> w.jobs, applications |-> w.applications, offers |-> w.offers,
     reviews |-> w.reviews, success |-> success, errs |-> IF success THEN 0 ELSE 1,
     msgs |-> 1]

\* variant: the catch block pushes the error and no message
Failed_noMessage(w) == [Outcome(w, FALSE) EXCEPT !.msgs = 0]

\* catch block of an agent: error and message pushed, lists untouched
Failed(w) == Outcome(w, FALSE)

\* variant: every pushed record is marked successful
PushResult_alwaysSuccess(user, outcomes) ==
    {o @@ [result |-> [userId |-> user.id, success |-> TRUE, error |-> FALSE]] :
        o \in outcomes}

\* the ActionResult an agent builds and pushes to actionHistory on its way
\* out; of its fields the record keeps the acting user, the success flag and
\* whether the error text is set
PushResult(user, outcomes) ==
    {o @@ [result |-> [userId |-> user.id, success |-> o.success,
                       error |-> ~o.success]] : o \in outcomes}

Tool(oks, w, done) == {IF ok THEN done ELSE Failed(w) : ok \in oks}

SetOfferStatus(w, offerId, st) ==
    [i \in 1..Len(w.offers) |->
        IF i = FindFirst(w.offers, LAMBDA o : o.id = offerId)
        THEN [w.offers[i] EXCEPT !.status = st] ELSE w.offers[i]]

\* sync loop of view_applications: the backend rows of the job replace the
\* entries with the same id (every row of this run is already in the list)
SyncApplications(w, jobId) ==
    [i \in 1..Len(w.applications) |->
        LET a == w.applications[i]
        IN IF a.jobId = jobId
           THEN [a EXCEPT !.tradespersonProfileId = a.applicantId] ELSE a]

\* jobParams.budget || Math.floor(Math.random() * 500) + 100, for a business
\* Math.floor(Math.random() * 1000) + 500
generatedBudget(role, random) ==
    IF role = "business" THEN (random * 1000) \div 2 + 500 ELSE (random * 500) \div 2 + 100

createJobOutcomes(w, poster, p, oks) ==
    UNION {Tool(oks, w,
             [Outcome(w, TRUE) EXCEPT !.jobs =
                 Append(w.jobs, [id |-> Len(w.jobs) + 1, status |-> "OPEN",
                                 createdBy |-> poster.id, budget |-> budget])]) :
           budget \in IF p.budget # 0 THEN {p.budget}
                      ELSE {generatedBudget(poster.role, random) : random \in BudgetDraws}}

makeOfferOutcomes(w, poster, p, oks) ==
    IF p.jobId = 0 \/ p.tradespersonProfileId = 0 THEN {Failed(w)}
    ELSE Tool(oks, w,
         [Outcome(w, TRUE) EXCEPT !.offers =
             Append(w.offers, [id |-> Len(w.offers) + 1, jobId |-> p.jobId,
                               homeownerId |-> poster.id,
                               tradespersonId |-> p.tradespersonProfileId,
                               status |-> "PENDING"])])

completeJobOutcomes(w, p, oks) ==
    IF p.offerId = 0 THEN {Failed(w)}
    ELSE Tool(oks, w,
         [Outcome(w, TRUE) EXCEPT !.offers = SetOfferStatus(w, p.offerId, "COMPLETED")])

\* rating: reviewParams.rating || Math.floor(Math.random() * 2) + 4
leaveReviewOutcomes(w, p, oks) ==
    IF p.offerId = 0 THEN {Failed(w)}
    ELSE UNION {Tool(oks, w,
                  [Outcome(w, TRUE) EXCEPT !.reviews =
                      Append(w.reviews, [id |-> Len(w.reviews) + 1, offerId |-> p.offerId,
                                         rating |-> rating])]) :
                rating \in IF p.rating # 0 THEN {p.rating}
                           ELSE {random + 4 : random \in RandomDraws}}

viewApplicationsOutcomes(w, targetJobId, oks) ==
    IF targetJobId = 0 THEN {Failed(w)}
    ELSE Tool(oks, w,
         [Outcome(w, TRUE) EXCEPT !.applications = SyncApplications(w, targetJobId)])

homeownerAgent(w, homeowner, action, p, oks) ==
    PushResult(homeowner,
    CASE action = "create_job" -> createJobOutcomes(w, homeowner, p, oks)
      [] action = "view_applications" ->
           viewApplicationsOutcomes(w,
               IF p.jobId # 0 THEN p.jobId
               ELSE IF Len(w.jobs) > 0 THEN w.jobs[1].id ELSE 0, oks)
      [] action = "shortlist_applicant" ->
           IF p.applicationId = 0 THEN {Failed(w)}
           ELSE Tool(oks, w,
                [Outcome(w, TRUE) EXCEPT !.applications =
                    [i \in 1..Len(w.applications) |->
                        IF i = FindFirst(w.applications, LAMBDA a : a.id = p.applicationId)
                        THEN [w.applications[i] EXCEPT !.status = "S"]
                        ELSE w.applications[i]]])
      [] action = "make_offer" -> makeOfferOutcomes(w, homeowner, p, oks)
      [] action = "complete_job" -> completeJobOutcomes(w, p, oks)
      [] action = "leave_review" -> leaveReviewOutcomes(w, p, oks)
      [] OTHER -> {Failed(w)})

businessAgent(w, business, action, p, oks) ==
    PushResult(business,
    CASE action = "create_job" -> createJobOutcomes(w, business, p, oks)
      [] action = "view_applications" ->
           LET b == FindFirst(w.jobs, LAMBDA j : j.createdBy = business.id)
           IN viewApplicationsOutcomes(w,
                  IF p.jobId # 0 THEN p.jobId
                  ELSE IF b # 0 THEN w.jobs[b].id ELSE 0, oks)
      [] action = "make_offer" -> makeOfferOutcomes(w, business, p, oks)
      [] action = "view_offers" -> Tool(oks, w, Outcome(w, TRUE))
      [] action = "complete_job" -> completeJobOutcomes(w, p, oks)
      [] action = "leave_review" -> leaveReviewOutcomes(w, p, oks)
      [] OTHER -> {Failed(w)})

\* apply_to_job once the job is known: tools.applyToJob and the push
applyOutcomes(w, tradesperson, jobId, oks) ==
    Tool(oks, w,
         [Outcome(w, TRUE) EXCEPT !.applications =
             Append(w.applications,
                    [id |-> Len(w.applications) + 1, jobId |-> jobId,
                     applicantId |-> tradesperson.id, tradespersonProfileId |-> 0,
                     status |-> "UR"])])

tradespersonAgent(w, tradesperson, action, p, oks) ==
    PushResult(tradesperson,
    CASE action \in {"browse_jobs", "view_offers"} -> Tool(oks, w, Outcome(w, TRUE))
      [] action = "view_reviews" ->
           IF tradesperson.tradespersonProfileId = 0 THEN {Failed(w)}
           ELSE Tool(oks, w, Outcome(w, TRUE))
      [] action = "apply_to_job" ->
           LET local == FindFirst(w.jobs, LAMBDA j :
                            /\ j.status = "OPEN"
                            /\ ~\E a \in 1..Len(w.applications) :
                                  /\ w.applications[a].applicantId = tradesperson.id
                                  /\ w.applications[a].jobId = j.id
                            /\ j.createdBy # tradesperson.id)
               \* getMatchingJobs: OPEN backend jobs not posted by the actor
               dbJobs == {w.jobs[i].id : i \in {k \in 1..Len(w.jobs) :
                            /\ w.jobs[k].status = "OPEN"
                            /\ w.jobs[k].createdBy # tradesperson.id}}
           IN IF p.jobId # 0 THEN applyOutcomes(w, tradesperson, p.jobId, oks)
              ELSE IF local # 0 THEN applyOutcomes(w, tradesperson, w.jobs[local].id, oks)
              ELSE IF dbJobs = {} THEN {Failed(w)}
              ELSE UNION {applyOutcomes(w, tradesperson, j, oks) : j \in dbJobs}
      [] action = "accept_offer" ->
           LET firstPending == FindFirst(w.offers, LAMBDA o : o.status = "PENDING")
               offerId == IF p.offerId # 0 THEN p.offerId
                          ELSE IF firstPending # 0 THEN w.offers[firstPending].id ELSE 0
               k == FindFirst(w.offers, LAMBDA o : o.id = offerId)
           IN IF offerId = 0 THEN {Failed(w)}
              ELSE Tool(oks, w,
                   [Outcome(w, TRUE) EXCEPT
                      !.offers = SetOfferStatus(w, offerId, "ACCEPTED"),
                      !.jobs = [i \in 1..Len(w.jobs) |->
                                  IF k # 0 /\ i = FindFirst(w.jobs,
                                                     LAMBDA j : j.id = w.offers[k].jobId)
                                  THEN [w.jobs[i] EXCEPT !.status = "IN_PROGRESS"]
                                  ELSE w.jobs[i]]])
      [] action = "reject_offer" ->
           IF p.offerId = 0 THEN {Failed(w)}
           ELSE Tool(oks, w,
                [Outcome(w, TRUE) EXCEPT !.offers = SetOfferStatus(w, p.offerId, "REJECTED")])
      [] OTHER -> {Failed(w)})

\* the agent of the role acting on a World State whose roster is `users`: its
\* find-by-role takes the first user of the role
roleAgent(w, users, role, decision, oks) ==
    LET acting == users[FindFirst(users, LAMBDA u : u.role = role)]
        ws == [w EXCEPT !.testUsers = users]
    IN CASE role = "homeowner" ->
              homeownerAgent(ws, acting, decision.action, decision.params, oks)
         [] role = "tradesperson" ->
              tradespersonAgent(ws, acting, decision.action, decision.params, oks)
         [] role = "business" ->
              businessAgent(ws, acting, decision.action, decision.params, oks)

\* variant: the roster is left with the actor at its front
executeAction_noRestore(w, user, decision, oks) ==
    LET front == <<user>> \o SelectSeq(w.testUsers, LAMBDA u : u.id # user.id)
    IN {o @@ [testUsers |-> front] : o \in roleAgent(w, front, user.role, decision, oks)}

\* executeAction moves the actor to the front of the roster, so the agent's
\* find-by-role returns it, and restores the roster afterwards
executeAction(w, user, decision, oks) ==
    LET front == <<user>> \o SelectSeq(w.testUsers, LAMBDA u : u.id # user.id)
    IN {o @@ [testUsers |-> w.testUsers] :
           o \in roleAgent(w, front, user.role, decision, oks)}

\* variant: pending offers count towards the accepted-offer goal
checkGoalsCompleted_pending(w, goals) ==
    /\ Len(w.jobs) >= goals.minJobs
    /\ Len(w.applications) >= goals.minApplications
    /\ CountIf(w.offers, LAMBDA o : o.status \in {"PENDING", "ACCEPTED", "COMPLETED"})
          >= goals.minAcceptedOffers
    /\ Len(w.reviews) >= goals.minReviews

checkGoalsCompleted(w, goals) ==
    /\ Len(w.jobs) >= goals.minJobs
    /\ Len(w.applications) >= goals.minApplications
    /\ CountIf(w.offers, LAMBDA o : o.status = "ACCEPTED" \/ o.status = "COMPLETED")
          >= goals.minAcceptedOffers
    /\ Len(w.reviews) >= goals.minReviews

----------------------------------------------------------------------------
(* Configurations and initial state: runAutonomousSimulation *)

\* thresholds follow the pipeline: a review needs an accepted offer, which
\* needs an application, which needs a job
GoalChoices ==
    {[minJobs |-> a, minApplications |-> b, minAcceptedOffers |-> c, minReviews |-> d] :
        a \in 0..MaxThreshold, b \in 0..MaxThreshold,
        c \in 0..MaxThreshold, d \in 0..MaxThreshold}

PipelineGoals == {g \in GoalChoices :
    g.minJobs >= g.minApplications /\ g.minApplications >= g.minAcceptedOffers
    /\ g.minAcceptedOffers >= g.minReviews}

\* the four thresholds equal
EqualGoals == {g \in PipelineGoals : g.minJobs = g.minReviews}

Config(h, t, b, g, n, llm, mw) ==
    [homeownerCount |-> h, tradespersonCount |-> t, businessCount |-> b,
     goals |-> [minJobs |-> g.minJobs, minApplications |-> g.minApplications,
                minAcceptedOffers |-> g.minAcceptedOffers, minReviews |-> g.minReviews,
                maxIterations |-> n],
     useLLM |-> llm, delayBetweenActions |-> 0, maxWaitCycles |-> mw]

\* every requested roster, short runs (roster size times iterations within
\* MaxRosterTurns); the Decision Service policy with equal thresholds only
RosterConfigs ==
    {cfg \in {Config(r[1], r[2], r[3], g, n, llm, 0) :
                r \in {x \in (0..MaxHomeowners) \X (0..MaxProviders) \X (0..MaxBusinesses) :
                           x[1] + x[2] + x[3] <= MaxAgents},
                g \in PipelineGoals, n \in 0..MaxIterRoster, llm \in BOOLEAN} :
        /\ cfg.useLLM => cfg.goals.minJobs = cfg.goals.minReviews
        /\ (cfg.homeownerCount + cfg.tradespersonCount + cfg.businessCount)
              * cfg.goals.maxIterations <= MaxRosterTurns}

\* one job-poster and one service-provider, longer runs, every policy
PairConfigs ==
    {Config(1, 1, 0, g, n, llm, mw) :
        g \in EqualGoals, n \in 0..MaxIter, llm \in BOOLEAN, mw \in 0..MaxWait}

\* many requested providers (most creations fail), heuristic policy: the
\* requests that leave the error list around finalize's limit and around
\* shouldContinue's ceiling
RequestedCounts ==
    {FinalizeErrorLimit + k : k \in 1..(MaxSurplus + 1)}
    \cup {ErrorCeiling + k : k \in 1..(MaxSurplus + 1)}

ErrorConfigs ==
    {Config(1, t, 0, g, n, FALSE, 0) :
        t \in RequestedCounts, g \in PipelineGoals, n \in 0..MaxIterErr}

\* stall scenario: one homeowner, one tradesperson, Decision Service policy,
\* no tolerated wait cycle, three iterations
StallConfigs ==
    {Config(1, 1, 0, [minJobs |-> 1, minApplications |-> 1, minAcceptedOffers |-> 1,
                      minReviews |-> 1], 3, TRUE, 0)}

\* one homeowner, one tradesperson, heuristic policy, and a job threshold one
\* above the number of job-posters
ExcessConfigs ==
    {Config(1, 1, 0, [minJobs |-> 2, minApplications |-> 0, minAcceptedOffers |-> 0,
                      minReviews |-> 0], n, FALSE, 0) : n \in 0..MaxIter}

Configs == RosterConfigs \cup PairConfigs \cup ErrorConfigs \cup StallConfigs
           \cup ExcessConfigs

InitState(cfg) ==
    /\ pc = "initialize_users"
    /\ simulationConfig = cfg
    /\ testUsers = <<>>
    /\ jobs = <<>>
    /\ applications = <<>>
    /\ offers = <<>>
    /\ reviews = <<>>
    /\ errors = 0
    /\ status = "running"
    /\ currentIteration = 0
    /\ waitingAgents = {}
    /\ lastActionByAgent = <<>>
    /\ shuffledAgents = <<>>
    /\ anyActionTaken = FALSE
    /\ skippedAgents = {}
    /\ goalsResult = "none"
    /\ actionHistory = <<>>
    /\ messages = 0
    /\ actor = NoActor
    /\ llmResponse = NoResponse
    /\ availableResult = <<>>
    /\ decisionResult = NoDecision
    /\ NoScenarioRun

Init == \E cfg \in Configs : InitState(cfg)

----------------------------------------------------------------------------
(* Graph nodes: graph/orchestrator.ts *)

UserIds == {testUsers[i].id : i \in 1..Len(testUsers)}

Roster(ch, ct, cb) ==
    [i \in 1..(ch + ct + cb) |->
        LET role == IF i <= ch THEN "homeowner"
                    ELSE IF i <= ch + ct THEN "tradesperson" ELSE "business"
        IN [id |-> i, role |-> role, tradespersonProfileId |-> ProfileOf(role, i)]]

\* variant: a roster with a homeowner is enough
minimumRolesMet_homeownerOnly(users) ==
    LET homeowners == CountIf(users, LAMBDA u : u.role = "homeowner")
    IN ~(homeowners = 0)

\* variant: either job-poster role satisfies the requirement
minimumRolesMet_anyPoster(users) ==
    LET posters == CountIf(users, LAMBDA u : u.role \in {"homeowner", "business"})
        tradespersons == CountIf(users, LAMBDA u : u.role = "tradesperson")
    IN ~(posters = 0 \/ tradespersons = 0)

\* "Check minimum requirements" of initializeUsers
minimumRolesMet(users) ==
    LET homeowners == CountIf(users, LAMBDA u : u.role = "homeowner")
        tradespersons == CountIf(users, LAMBDA u : u.role = "tradesperson")
    IN ~(homeowners = 0 \/ tradespersons = 0)

\* node initialize_users; createOks: the results createTestUser may give
InitializeUsers(createOks) ==
    /\ pc = "initialize_users"
    /\ \E ch \in 0..simulationConfig.homeownerCount,
          ct \in 0..simulationConfig.tradespersonCount,
          cb \in 0..simulationConfig.businessCount :
          LET failures == (simulationConfig.homeownerCount - ch)
                          + (simulationConfig.tradespersonCount - ct)
                          + (simulationConfig.businessCount - cb)
          IN /\ ct <= MaxProviders
             /\ failures > 0 => FALSE \in createOks
             /\ ch + ct + cb > 0 => TRUE \in createOks
             /\ testUsers' = Roster(ch, ct, cb)
             /\ lastActionByAgent' = [i \in 1..(ch + ct + cb) |-> 0]
             /\ messages' = messages + ch + ct + cb
             /\ IF ~minimumRolesMet(Roster(ch, ct, cb))
                THEN errors' = errors + failures + 1 /\ status' = "failed"
                ELSE errors' = errors + failures /\ status' = "running"
    /\ waitingAgents' = {}
    /\ pc' = "shouldContinue"
    /\ UNCHANGED <<scenarioVars, simulationConfig, jobs, applications, offers, reviews,
                   currentIteration, shuffledAgents, anyActionTaken, skippedAgents, goalsResult,
                   actionHistory, callVars>>

\* variant: the error test stops at the ceiling itself
shouldContinue_atCeiling(st, iteration, w, cfg, errs) ==
    IF st = "failed" THEN [next |-> "cleanup", status |-> st]
    ELSE IF iteration >= cfg.goals.maxIterations THEN [next |-> "cleanup", status |-> st]
    ELSE IF checkGoalsCompleted(w, cfg.goals) THEN [next |-> "cleanup", status |-> st]
    ELSE IF errs >= ErrorCeiling THEN [next |-> "cleanup", status |-> "failed"]
    ELSE [next |-> "autonomous_loop", status |-> st]

\* variant: the iteration test lets one more iteration through
shouldContinue_lateCap(st, iteration, w, cfg, errs) ==
    IF st = "failed" THEN [next |-> "cleanup", status |-> st]
    ELSE IF iteration > cfg.goals.maxIterations THEN [next |-> "cleanup", status |-> st]
    ELSE IF checkGoalsCompleted(w, cfg.goals) THEN [next |-> "cleanup", status |-> st]
    ELSE IF errs > ErrorCeiling THEN [next |-> "cleanup", status |-> "failed"]
    ELSE [next |-> "autonomous_loop", status |-> st]

\* conditional edge after initialize_users and after autonomous_loop
shouldContinue(st, iteration, w, cfg, errs) ==
    IF st = "failed" THEN [next |-> "cleanup", status |-> st]
    ELSE IF iteration >= cfg.goals.maxIterations THEN [next |-> "cleanup", status |-> st]
    ELSE IF checkGoalsCompleted(w, cfg.goals) THEN [next |-> "cleanup", status |-> st]
    ELSE IF errs > ErrorCeiling THEN [next |-> "cleanup", status |-> "failed"]
    ELSE [next |-> "autonomous_loop", status |-> st]

ShouldContinue ==
    /\ pc = "shouldContinue"
    /\ LET r == shouldContinue(status, currentIteration, World, simulationConfig, errors)
       IN pc' = r.next /\ status' = r.status
    /\ UNCHANGED <<scenarioVars, simulationConfig, testUsers, jobs, applications, offers, reviews,
                   errors, currentIteration, waitingAgents, lastActionByAgent,
                   shuffledAgents, anyActionTaken, skippedAgents, goalsResult,
                   actionHistory, messages, callVars>>

\* node autonomous_loop, up to the first actor's turn
BeginIteration ==
    /\ pc = "autonomous_loop"
    /\ currentIteration' = currentIteration + 1
    /\ shuffledAgents' \in Shuffles(testUsers)
    /\ anyActionTaken' = FALSE
    /\ pc' = "turn"
    /\ UNCHANGED <<scenarioVars, simulationConfig, testUsers, jobs, applications, offers, reviews,
                   errors, status, waitingAgents, lastActionByAgent, skippedAgents, goalsResult,
                   actionHistory, messages, callVars>>

\* variant: the stall test fires once the wait reaches the cap
IsSkipped_atCap(agent, waiting, last, iteration, cfg) ==
    LET lastAction == last[agent.id]
        waitCycles == iteration - lastAction
    IN agent.id \in waiting /\ waitCycles >= cfg.maxWaitCycles

\* variant: the stall test looks at the wait alone
IsSkipped_anyActor(agent, waiting, last, iteration, cfg) ==
    LET lastAction == last[agent.id]
        waitCycles == iteration - lastAction
    IN waitCycles > cfg.maxWaitCycles

\* the stall test at the top of the for loop
IsSkipped(agent, waiting, last, iteration, cfg) ==
    LET lastAction == last[agent.id]
        waitCycles == iteration - lastAction
    IN agent.id \in waiting /\ waitCycles > cfg.maxWaitCycles

\* node autonomous_loop, one pass of the for loop (one actor's turn); the node
\* returns after the last actor
AgentTurn(oks) ==
    /\ pc = "turn"
    /\ shuffledAgents # <<>>
    /\ LET agent == Head(shuffledAgents)
           availableActions == getAvailableActions(World, agent)
           waits == /\ waitingAgents' = waitingAgents \cup {agent.id}
                    /\ UNCHANGED <<testUsers, jobs, applications, offers, reviews, errors,
                                   lastActionByAgent, anyActionTaken, actionHistory,
                                   messages>>
       IN IF IsSkipped(agent, waitingAgents, lastActionByAgent, currentIteration,
                       simulationConfig)
          THEN /\ skippedAgents' = skippedAgents \cup {agent.id}
               /\ UNCHANGED <<testUsers, jobs, applications, offers, reviews, errors,
                              waitingAgents, lastActionByAgent, anyActionTaken,
                              actionHistory, messages>>
          ELSE /\ skippedAgents' = skippedAgents \ {agent.id}
               /\ IF Len(availableActions) = 0
                  THEN waits
                  ELSE \E decision \in decideNextAction(World, agent,
                                                       simulationConfig.useLLM) :
                       IF decision = NoDecision
                       THEN waits
                       ELSE \E result \in executeAction(World, agent, decision, oks) :
                            /\ waitingAgents' = waitingAgents \ {agent.id}
                            /\ testUsers' = result.testUsers
                            /\ jobs' = result.jobs
                            /\ applications' = result.applications
                            /\ offers' = result.offers
                            /\ reviews' = result.reviews
                            /\ errors' = errors + result.errs
                            /\ messages' = messages + result.msgs
                            /\ actionHistory' = Append(actionHistory, result.result)
                            /\ lastActionByAgent' =
                                  IF result.success
                                  THEN [lastActionByAgent EXCEPT
                                           ![agent.id] = currentIteration]
                                  ELSE lastActionByAgent
                            /\ anyActionTaken' = (anyActionTaken \/ result.success)
    /\ shuffledAgents' = Tail(shuffledAgents)
    /\ pc' = IF Tail(shuffledAgents) = <<>> THEN "shouldContinue" ELSE "turn"
    /\ UNCHANGED <<scenarioVars, simulationConfig, status, currentIteration, goalsResult,
                   callVars>>

\* node cleanup: keeps all data
Cleanup ==
    /\ pc = "cleanup"
    /\ messages' = messages + 1
    /\ pc' = "finalize"
    /\ UNCHANGED <<scenarioVars, simulationConfig, testUsers, jobs, applications, offers, reviews,
                   errors, status, currentIteration, waitingAgents, lastActionByAgent,
                   shuffledAgents, anyActionTaken, skippedAgents, goalsResult,
                   actionHistory, callVars>>

\* variant: the error test comes before the goal test
finalStatus_errorsFirst(w, goals, errs) ==
    IF errs > FinalizeErrorLimit THEN "failed"
    ELSE "completed"

\* final status computed by finalize
finalStatus(w, goals, errs) ==
    LET jobsGoal == Len(w.jobs) >= goals.minJobs
        appsGoal == Len(w.applications) >= goals.minApplications
        offersGoal == CountIf(w.offers,
                         LAMBDA o : o.status = "ACCEPTED" \/ o.status = "COMPLETED")
                      >= goals.minAcceptedOffers
        reviewsGoal == Len(w.reviews) >= goals.minReviews
        allGoalsMet == jobsGoal /\ appsGoal /\ offersGoal /\ reviewsGoal
    IN IF allGoalsMet THEN "completed"
       ELSE IF errs > FinalizeErrorLimit THEN "failed"
       ELSE "completed"

\* node finalize, then END
Finalize ==
    /\ pc = "finalize"
    /\ status' = finalStatus(World, simulationConfig.goals, errors)
    /\ pc' = "END"
    /\ UNCHANGED <<scenarioVars, simulationConfig, testUsers, jobs, applications, offers, reviews,
                   errors, currentIteration, waitingAgents, lastActionByAgent,
                   shuffledAgents, anyActionTaken, skippedAgents, goalsResult,
                   actionHistory, messages, callVars>>

Next ==
    \/ InitializeUsers(BOOLEAN)
    \/ ShouldContinue
    \/ BeginIteration
    \/ AgentTurn(BOOLEAN)
    \/ Cleanup
    \/ Finalize

Spec == Init /\ [][Next]_vars

\* the for loop of autonomousLoop goes on to the next actor of the shuffled order
LoopAdvances ==
    /\ pc = "turn"
    /\ shuffledAgents # <<>>
    /\ shuffledAgents' = Tail(shuffledAgents)

\* every awaited external call returns, so each node of the graph runs once it
\* is reached and the for loop always goes on to its next actor;
\* runs of at most MaxIterLive iterations, with the four thresholds equal
LiveConfigs ==
    {cfg \in RosterConfigs \cup PairConfigs :
        /\ cfg.goals.maxIterations <= MaxIterLive
        /\ cfg.goals.minJobs = cfg.goals.minReviews}

InitLive == \E cfg \in LiveConfigs : InitState(cfg)

FairSpec ==
    /\ InitLive
    /\ [][Next]_vars
    /\ WF_vars(InitializeUsers(BOOLEAN))
    /\ WF_vars(ShouldContinue)
    /\ WF_vars(BeginIteration)
    /\ WF_shuffledAgents(LoopAdvances)
    /\ WF_vars(Cleanup)
    /\ WF_vars(Finalize)

----------------------------------------------------------------------------
(* Goal Evaluator called on its own: checkGoalsCompleted over arbitrary     *)
(* World States and thresholds                                             *)

ListsOf(n, Elem(_)) == {[i \in 1..k |-> Elem(i)] : k \in 0..n}

\* the statuses the agents write to an offer of World State
WrittenOfferStatuses == {"PENDING", "ACCEPTED", "REJECTED", "COMPLETED"}

OfferLists ==
    UNION {[1..k -> {[id |-> 0, jobId |-> 1, homeownerId |-> 1, tradespersonId |-> 2,
                      status |-> st] : st \in WrittenOfferStatuses}] : k \in 0..MaxOfferList}

InitGoals ==
    /\ pc = "checkGoalsCompleted"
    /\ \E g \in [minJobs : 0..MaxCount, minApplications : 0..MaxCount,
                 minAcceptedOffers : 0..MaxCount, minReviews : 0..MaxCount] :
          simulationConfig = Config(1, 1, 0, g, 0, FALSE, 0)
    /\ testUsers = Roster(1, 1, 0)
    /\ jobs \in ListsOf(MaxCount, LAMBDA i : [id |-> i, status |-> "OPEN", createdBy |-> 1,
                                                 budget |-> ScenarioBudget])
    /\ applications \in ListsOf(MaxCount, LAMBDA i :
           [id |-> i, jobId |-> 1, applicantId |-> 2, tradespersonProfileId |-> 0,
            status |-> "UR"])
    /\ offers \in OfferLists
    /\ reviews \in ListsOf(MaxCount, LAMBDA i : [id |-> i, offerId |-> 1, rating |-> 5])
    /\ errors = 0
    /\ status = "running"
    /\ currentIteration = 0
    /\ waitingAgents = {}
    /\ lastActionByAgent = [i \in 1..2 |-> 0]
    /\ shuffledAgents = <<>>
    /\ anyActionTaken = FALSE
    /\ skippedAgents = {}
    /\ goalsResult = "none"
    /\ actionHistory = <<>>
    /\ messages = 0
    /\ actor = NoActor
    /\ llmResponse = NoResponse
    /\ availableResult = <<>>
    /\ decisionResult = NoDecision
    /\ NoScenarioRun

EvaluateGoals ==
    /\ pc = "checkGoalsCompleted"
    /\ goalsResult' = IF checkGoalsCompleted(World, simulationConfig.goals)
                      THEN "true" ELSE "false"
    /\ pc' = "returned"
    /\ UNCHANGED <<scenarioVars, simulationConfig, testUsers, jobs, applications, offers, reviews,
                   errors, status, currentIteration, waitingAgents, lastActionByAgent,
                   shuffledAgents, anyActionTaken, skippedAgents, actionHistory, messages,
                   callVars>>

NextGoals == EvaluateGoals

SpecGoals == InitGoals /\ [][NextGoals]_vars

----------------------------------------------------------------------------
(* End-to-end run: one homeowner, one tradesperson, heuristic policy, every *)
(* call to the backend succeeds                                            *)

FullGoals == [minJobs |-> 1, minApplications |-> 1, minAcceptedOffers |-> 1, minReviews |-> 1]

InitE2E == \E mw \in 0..MaxWait : InitState(Config(1, 1, 0, FullGoals, MaxIterE2E, FALSE, mw))

NextE2E ==
    \/ InitializeUsers({TRUE})
    \/ ShouldContinue
    \/ BeginIteration
    \/ AgentTurn({TRUE})
    \/ Cleanup
    \/ Finalize

SpecE2E ==
    /\ InitE2E
    /\ [][NextE2E]_vars
    /\ WF_vars(InitializeUsers({TRUE}))
    /\ WF_vars(ShouldContinue)
    /\ WF_vars(BeginIteration)
    /\ WF_shuffledAgents(LoopAdvances)
    /\ WF_vars(Cleanup)
    /\ WF_vars(Finalize)

----------------------------------------------------------------------------
(* Availability Resolver and Action Policy called on their own, for an     *)
(* actor of a roster of one homeowner (1), two tradespersons (2, 3) and one *)
(* business (4), over World States whose references resolve: an             *)
(* application names a job of the list, an offer names a job of the list    *)
(* and its creator, a review names an offer of the list                     *)

CallRoster == Roster(1, 2, 1)

\* lists of at most n entries, entry i built from one of the choices
EntityLists(n, Choices, Build(_, _)) ==
    UNION {{[i \in 1..k |-> Build(i, f[i])] : f \in [1..k -> Choices]} : k \in 0..n}

JobLists(creators, statuses) ==
    EntityLists(MaxWorldJobs, creators \X statuses,
                LAMBDA i, c : [id |-> i, status |-> c[2], createdBy |-> c[1],
                               budget |-> ScenarioBudget])

\* the job entry i of a list refers to: the jobs in turn
JobInTurn(i, js) == 1 + ((i - 1) % Len(js))

OfferListsFor(js, providers) ==
    EntityLists(IF Len(js) = 0 THEN 0 ELSE MaxWorldOffers,
                providers \X {"PENDING", "ACCEPTED", "COMPLETED"},
                LAMBDA i, c : [id |-> i, jobId |-> JobInTurn(i, js),
                               homeownerId |-> js[JobInTurn(i, js)].createdBy,
                               tradespersonId |-> c[1], status |-> c[2]])

\* reviews of rating 5, in the order of the offers they are for
ReviewListsFor(os) ==
    {rs \in EntityLists(IF Len(os) = 0 THEN 0 ELSE MaxWorldReviews, 1..Len(os),
                        LAMBDA i, c : [id |-> i, offerId |-> c, rating |-> 5]) :
        \A i, j \in 1..Len(rs) : i < j => rs[i].offerId < rs[j].offerId}

\* applications of tradesperson 2, unread or accepted, spread over the jobs
\* in turn
PosterAppLists(js) ==
    EntityLists(IF Len(js) = 0 THEN 0 ELSE MaxPosterApps, {"UR", "A"},
                LAMBDA i, c : [id |-> i, jobId |-> JobInTurn(i, js), applicantId |-> 2,
                               tradespersonProfileId |-> 0, status |-> c])

\* k applications, the first `own` of them by tradesperson 2 and the others by
\* tradesperson 3, spread over the jobs in turn
ProviderAppLists(js) ==
    {[i \in 1..k |-> [id |-> i, jobId |-> JobInTurn(i, js),
                      applicantId |-> IF i <= own THEN 2 ELSE 3,
                      tradespersonProfileId |-> 0, status |-> "UR"]] :
        k \in 0..(IF Len(js) = 0 THEN 0 ELSE MaxProviderApps), own \in 0..MaxProviderApps}

\* state before a stand-alone call: entry point, World State, actor, policy
\* switch and the Decision Service's answer
InitCall(entry, w, user, useLLM, response) ==
    /\ pc = entry
    /\ simulationConfig = Config(1, 2, 1, FullGoals, 0, useLLM, 0)
    /\ testUsers = CallRoster
    /\ jobs = w.jobs
    /\ applications = w.applications
    /\ offers = w.offers
    /\ reviews = w.reviews
    /\ errors = 0
    /\ status = "running"
    /\ currentIteration = 0
    /\ waitingAgents = {}
    /\ lastActionByAgent = [i \in 1..Len(CallRoster) |-> 0]
    /\ shuffledAgents = <<>>
    /\ anyActionTaken = FALSE
    /\ skippedAgents = {}
    /\ goalsResult = "none"
    /\ actionHistory = <<>>
    /\ messages = 0
    /\ actor = user
    /\ llmResponse = response
    /\ availableResult = <<>>
    /\ decisionResult = NoDecision
    /\ NoScenarioRun

\* the Decision Service's answer held ready for a stand-alone call
CallResponses(w, useLLM) == IF useLLM THEN LLMResponsesIn(w) ELSE {NoResponse}

\* a stand-alone call by a job-poster, over the World States drawn for it
InitPosterCall(entry, useLLM) ==
    \E js \in JobLists({1, 4}, {"OPEN"}) :
      \E as \in PosterAppLists(js) :
        \E os \in OfferListsFor(js, {2}) :
          \E rs \in ReviewListsFor(os), u \in {1, 4} :
            LET w == [jobs |-> js, applications |-> as, offers |-> os, reviews |-> rs,
                      testUsers |-> CallRoster]
            IN \E response \in CallResponses(w, useLLM) :
                  InitCall(entry, w, CallRoster[u], useLLM, response)

\* a stand-alone call by a service-provider, over the World States drawn for it
InitProviderCall(entry, useLLM) ==
    \E js \in JobLists({1}, {"OPEN", "IN_PROGRESS"}) :
      \E as \in ProviderAppLists(js) :
        \E os \in OfferListsFor(js, {2, 3}), u \in {2, 3} :
          LET w == [jobs |-> js, applications |-> as, offers |-> os, reviews |-> <<>>,
                    testUsers |-> CallRoster]
          IN \E response \in CallResponses(w, useLLM) :
                InitCall(entry, w, CallRoster[u], useLLM, response)

InitAvailable ==
    \/ InitPosterCall("getAvailableActions", FALSE)
    \/ InitProviderCall("getAvailableActions", FALSE)

GetAvailableActions ==
    /\ pc = "getAvailableActions"
    /\ availableResult' = getAvailableActions(World, actor)
    /\ pc' = "returned"
    /\ UNCHANGED <<scenarioVars, simulationConfig, testUsers, jobs, applications, offers, reviews,
                   errors, status, currentIteration, waitingAgents, lastActionByAgent,
                   shuffledAgents, anyActionTaken, skippedAgents, goalsResult,
                   actionHistory, messages, actor, llmResponse, decisionResult>>

NextAvailable == GetAvailableActions

SpecAvailable == InitAvailable /\ [][NextAvailable]_vars

\* stand-alone decideNextAction, then executeAction of the decision it
\* returned (the backend calls of the executor succeed)
InitPolicy ==
    \E useLLM \in BOOLEAN :
       \/ InitPosterCall("decideNextAction", useLLM)
       \/ InitProviderCall("decideNextAction", useLLM)

DecideNextAction ==
    /\ pc = "decideNextAction"
    /\ \E random \in RandomDraws :
          decisionResult' = decideNextActionWith(World, actor, simulationConfig.useLLM,
                                                 llmResponse, random)
    /\ pc' = "decided"
    /\ UNCHANGED <<scenarioVars, simulationConfig, testUsers, jobs, applications, offers, reviews,
                   errors, status, currentIteration, waitingAgents, lastActionByAgent,
                   shuffledAgents, anyActionTaken, skippedAgents, goalsResult,
                   actionHistory, messages, actor, llmResponse, availableResult>>

ExecuteDecision(oks) ==
    /\ pc = "decided"
    /\ decisionResult # NoDecision
    /\ \E result \in executeAction(World, actor, decisionResult, oks) :
          /\ testUsers' = result.testUsers
          /\ jobs' = result.jobs
          /\ applications' = result.applications
          /\ offers' = result.offers
          /\ reviews' = result.reviews
          /\ errors' = errors + result.errs
          /\ messages' = messages + result.msgs
          /\ actionHistory' = Append(actionHistory, result.result)
    /\ pc' = "executed"
    /\ UNCHANGED <<scenarioVars, simulationConfig, status, currentIteration, waitingAgents,
                   lastActionByAgent, shuffledAgents, anyActionTaken, skippedAgents,
                   goalsResult, callVars>>

NextPolicy == DecideNextAction \/ ExecuteDecision({TRUE})

SpecPolicy == InitPolicy /\ [][NextPolicy]_vars

----------------------------------------------------------------------------
(* The turns of a run one after the other, from the empty World State: the  *)
(* homeowner (1) and the first tradesperson (2) of the roster act under the *)
(* Decision Service policy and the backend calls succeed.  A turn is        *)
(* decideNextAction followed by executeAction of its decision.  The shuffle *)
(* is random and a turn can be a browse or a view that changes nothing, so  *)
(* a run can take its World-State-changing turns in any order.  The        *)
(* sequences followed are those of at most MaxFlowTurns executed actions    *)
(* that create at most MaxFlowJobs jobs and MaxFlowOffers offers.           *)

FlowActors == {1, 2}

InitFlow ==
    InitCall("turn", [jobs |-> <<>>, applications |-> <<>>, offers |-> <<>>,
                      reviews |-> <<>>, testUsers |-> CallRoster],
             NoActor, TRUE, NoResponse)

\* the for loop reaches an actor with a non-empty availability set and that
\* actor's decideNextAction returns
TurnDecides ==
    /\ pc \in {"turn", "decided"}
    /\ pc = "decided" => decisionResult = NoDecision
    /\ Len(actionHistory) < MaxFlowTurns
    /\ \E u \in FlowActors :
          /\ Len(getAvailableActions(World, CallRoster[u])) # 0
          /\ actor' = CallRoster[u]
          /\ decisionResult' \in decideNextAction(World, CallRoster[u],
                                                  simulationConfig.useLLM)
    /\ decisionResult'.action = "create_job" => Len(jobs) < MaxFlowJobs
    /\ decisionResult'.action = "make_offer" => Len(offers) < MaxFlowOffers
    /\ pc' = "decided"
    /\ UNCHANGED <<scenarioVars, simulationConfig, testUsers, jobs, applications, offers, reviews,
                   errors, status, currentIteration, waitingAgents, lastActionByAgent,
                   shuffledAgents, anyActionTaken, skippedAgents, goalsResult,
                   actionHistory, messages, llmResponse, availableResult>>

\* executeAction of the turn's decision; the loop then goes on to the next
\* turn, and the turn's actor and decision go out of scope
TurnExecutes(oks) ==
    /\ pc = "decided"
    /\ decisionResult # NoDecision
    /\ \E result \in executeAction(World, actor, decisionResult, oks) :
          /\ testUsers' = result.testUsers
          /\ jobs' = result.jobs
          /\ applications' = result.applications
          /\ offers' = result.offers
          /\ reviews' = result.reviews
          /\ errors' = errors + result.errs
          /\ messages' = messages + result.msgs
          /\ actionHistory' = Append(actionHistory, result.result)
    /\ actor' = NoActor
    /\ decisionResult' = NoDecision
    /\ pc' = "turn"
    /\ UNCHANGED <<scenarioVars, simulationConfig, status, currentIteration, waitingAgents,
                   lastActionByAgent, shuffledAgents, anyActionTaken, skippedAgents,
                   goalsResult, llmResponse, availableResult>>

NextFlow == TurnDecides \/ TurnExecutes({TRUE})

SpecFlow == InitFlow /\ [][NextFlow]_vars

----------------------------------------------------------------------------
(* The fallback policy called on its own for tradesperson 2, over World     *)
(* States of the homeowner's jobs with budgets from 1 to MaxBudget, to some *)
(* of which the tradesperson has applied                                    *)

CostJobLists ==
    EntityLists(MaxCostJobs, {"OPEN", "IN_PROGRESS"} \X (1..MaxBudget),
                LAMBDA i, c : [id |-> i, status |-> c[1], createdBy |-> 1, budget |-> c[2]])

\* one application of tradesperson 2 to each job of the set
ApplicationsTo(applied) ==
    [i \in 1..Cardinality(applied) |->
        [id |-> i, jobId |-> CHOOSE j \in applied : Cardinality({k \in applied : k < j}) = i - 1,
         applicantId |-> 2, tradespersonProfileId |-> 0, status |-> "UR"]]

InitCost ==
    \E js \in CostJobLists :
      \E applied \in SUBSET (1..Len(js)) :
        InitCall("decideNextAction",
                 [jobs |-> js, applications |-> ApplicationsTo(applied), offers |-> <<>>,
                  reviews |-> <<>>, testUsers |-> CallRoster],
                 CallRoster[2], FALSE, NoResponse)

SpecCost == InitCost /\ [][NextPolicy]_vars

----------------------------------------------------------------------------
(* Scripted run: runScenario and the graph of buildOrchestratorGraph, over  *)
(* scenarios of at most MaxSteps steps.  A step names an agent and an       *)
(* action; the params of a step reach the agents outside the per-action key *)
(* they read, so every step runs on the agents' defaults.                   *)

StepChoices ==
    {[agent |-> "homeowner", action |-> "create_job"],
     [agent |-> "tradesperson", action |-> "apply_to_job"],
     [agent |-> "homeowner", action |-> "make_offer"],
     [agent |-> "business", action |-> "create_job"],
     [agent |-> "admin", action |-> "create_job"]}

Scenarios ==
    {[name |-> "scripted", steps |-> steps] :
        steps \in UNION {[1..k -> StepChoices] : k \in 0..MaxSteps}}

\* the elements of a set of numbers in increasing order
InOrder(S) ==
    [k \in 1..Cardinality(S) |-> CHOOSE i \in S : Cardinality({j \in S : j < i}) = k - 1]

\* neededRoles: the agents of the steps, each once, in order of first use
NeededRoles(steps) ==
    LET firsts == {i \in 1..Len(steps) : \A j \in 1..(i - 1) : steps[j].agent # steps[i].agent}
    IN [k \in 1..Cardinality(firsts) |-> steps[InOrder(firsts)[k]].agent]

InitScenario ==
    /\ pc = "initialize_users"
    /\ simulationConfig = Config(0, 0, 0, [minJobs |-> 0, minApplications |-> 0,
                                           minAcceptedOffers |-> 0, minReviews |-> 0],
                                 0, FALSE, 0)
    /\ testUsers = <<>>
    /\ jobs = <<>>
    /\ applications = <<>>
    /\ offers = <<>>
    /\ reviews = <<>>
    /\ errors = 0
    /\ status = "running"
    /\ currentIteration = 0
    /\ waitingAgents = {}
    /\ lastActionByAgent = <<>>
    /\ shuffledAgents = <<>>
    /\ anyActionTaken = FALSE
    /\ skippedAgents = {}
    /\ goalsResult = "none"
    /\ actionHistory = <<>>
    /\ messages = 0
    /\ actor = NoActor
    /\ llmResponse = NoResponse
    /\ availableResult = <<>>
    /\ decisionResult = NoDecision
    /\ currentScenario \in Scenarios
    /\ currentStepIndex = 0
    /\ skipCleanup \in BOOLEAN
    /\ deletedUsers = {}

\* node initialize_users of the scripted graph; createOks: the results
\* createTestUser may give
ScenarioInitializeUsers(createOks) ==
    /\ pc = "initialize_users"
    /\ IF currentScenario = NoScenario
       THEN /\ errors' = errors + 1
            /\ status' = "failed"
            /\ UNCHANGED <<testUsers, messages>>
       ELSE LET neededRoles == NeededRoles(currentScenario.steps)
            IN \E created \in SUBSET (1..Len(neededRoles)) :
                  LET order == InOrder(created)
                      failures == Len(neededRoles) - Cardinality(created)
                  IN /\ failures > 0 => FALSE \in createOks
                     /\ created # {} => TRUE \in createOks
                     /\ testUsers' =
                           [k \in 1..Cardinality(created) |->
                               [id |-> k, role |-> neededRoles[order[k]],
                                tradespersonProfileId |->
                                    ProfileOf(neededRoles[order[k]], k)]]
                     /\ messages' = messages + Cardinality(created)
                     /\ IF failures > 0
                        THEN errors' = errors + failures + 1 /\ status' = "failed"
                        ELSE errors' = errors /\ status' = "running"
    /\ pc' = "shouldContinue"
    /\ UNCHANGED <<simulationConfig, jobs, applications, offers, reviews, currentIteration,
                   waitingAgents, lastActionByAgent, shuffledAgents, anyActionTaken,
                   skippedAgents, goalsResult, actionHistory, callVars, scenarioVars>>

\* variant: the loop is left one step late
scenarioShouldContinue_lateExit(st, scenario, index) ==
    IF st = "failed" THEN "cleanup"
    ELSE IF scenario = NoScenario THEN "cleanup"
    ELSE IF index <= Len(scenario.steps) THEN "execute_step"
    ELSE "cleanup"

\* conditional edge of the scripted graph
scenarioShouldContinue(st, scenario, index) ==
    IF st = "failed" THEN "cleanup"
    ELSE IF scenario = NoScenario THEN "cleanup"
    ELSE IF index < Len(scenario.steps) THEN "execute_step"
    ELSE "cleanup"

ScenarioShouldContinue ==
    /\ pc = "shouldContinue"
    /\ pc' = scenarioShouldContinue(status, currentScenario, currentStepIndex)
    /\ UNCHANGED <<simulationConfig, testUsers, jobs, applications, offers, reviews,
                   errors, status, currentIteration, waitingAgents, lastActionByAgent,
                   shuffledAgents, anyActionTaken, skippedAgents, goalsResult,
                   actionHistory, messages, callVars, scenarioVars>>

\* the switch of executeStep: the agent of the step's role acts for the first
\* user of that role; "none": the agent returns before its try, having found
\* no user; "throws": unknown agent type
routeStep(w, step, oks) ==
    LET u == FindFirst(w.testUsers, LAMBDA x : x.role = step.agent)
        run(outcomes) == {[kind |-> "result", outcome |-> o] : o \in outcomes}
    IN IF step.agent \notin {"homeowner", "tradesperson", "business"}
       THEN {[kind |-> "throws", outcome |-> Failed(w)]}
       ELSE IF u = 0 THEN {[kind |-> "none", outcome |-> Failed(w)]}
       ELSE CASE step.agent = "homeowner" ->
                   run(homeownerAgent(w, w.testUsers[u], step.action, EmptyParams, oks))
              [] step.agent = "tradesperson" ->
                   run(tradespersonAgent(w, w.testUsers[u], step.action, EmptyParams, oks))
              [] step.agent = "business" ->
                   run(businessAgent(w, w.testUsers[u], step.action, EmptyParams, oks))

\* node execute_step
ExecuteStep(oks) ==
    /\ pc = "execute_step"
    /\ IF currentScenario = NoScenario \/ currentStepIndex >= Len(currentScenario.steps)
       THEN UNCHANGED <<jobs, applications, offers, reviews, errors, messages,
                        actionHistory, currentStepIndex>>
       ELSE /\ \E r \in routeStep(World, currentScenario.steps[currentStepIndex + 1], oks) :
                 CASE r.kind = "result" ->
                        /\ jobs' = r.outcome.jobs
                        /\ applications' = r.outcome.applications
                        /\ offers' = r.outcome.offers
                        /\ reviews' = r.outcome.reviews
                        /\ errors' = errors + r.outcome.errs
                        /\ messages' = messages + r.outcome.msgs
                        /\ actionHistory' = Append(actionHistory, r.outcome.result)
                   [] r.kind = "none" ->
                        UNCHANGED <<jobs, applications, offers, reviews, errors, messages,
                                    actionHistory>>
                   [] r.kind = "throws" ->
                        /\ errors' = errors + 1
                        /\ UNCHANGED <<jobs, applications, offers, reviews, messages,
                                       actionHistory>>
            /\ currentStepIndex' = currentStepIndex + 1
    /\ pc' = "shouldContinue"
    /\ UNCHANGED <<simulationConfig, testUsers, status, currentIteration, waitingAgents,
                   lastActionByAgent, shuffledAgents, anyActionTaken, skippedAgents,
                   goalsResult, callVars, currentScenario, skipCleanup, deletedUsers>>

\* node cleanup of the scripted graph; deleteOks: the results deleteTestUser
\* may give (a failure is logged and the loop goes on)
ScenarioCleanup(deleteOks) ==
    /\ pc = "cleanup"
    /\ \E deleted \in SUBSET UserIds :
          /\ deleted # {} => TRUE \in deleteOks
          /\ deleted # UserIds => FALSE \in deleteOks
          /\ deletedUsers' = deletedUsers \cup deleted
    /\ messages' = messages + 1
    /\ pc' = "finalize"
    /\ UNCHANGED <<simulationConfig, testUsers, jobs, applications, offers, reviews,
                   errors, status, currentIteration, waitingAgents, lastActionByAgent,
                   shuffledAgents, anyActionTaken, skippedAgents, goalsResult,
                   actionHistory, callVars, currentScenario, currentStepIndex, skipCleanup>>

\* variant: a few errors are tolerated, as at the end of an autonomous run
scenarioFinalStatus_tolerant(errs) ==
    IF errs > FinalizeErrorLimit THEN "failed" ELSE "completed"

\* status set by finalize of the scripted graph
scenarioFinalStatus(errs) ==
    IF errs > 0 THEN "failed" ELSE "completed"

\* node finalize of the scripted graph, then END
ScenarioFinalize ==
    /\ pc = "finalize"
    /\ status' = scenarioFinalStatus(errors)
    /\ pc' = "END"
    /\ UNCHANGED <<simulationConfig, testUsers, jobs, applications, offers, reviews,
                   errors, currentIteration, waitingAgents, lastActionByAgent,
                   shuffledAgents, anyActionTaken, skippedAgents, goalsResult,
                   actionHistory, messages, callVars, scenarioVars>>

NextScenario ==
    \/ ScenarioInitializeUsers(BOOLEAN)
    \/ ScenarioShouldContinue
    \/ ExecuteStep(BOOLEAN)
    \/ ScenarioCleanup(BOOLEAN)
    \/ ScenarioFinalize

SpecScenario == InitScenario /\ [][NextScenario]_vars

\* graph.invoke runs the node it is at until END is reached
FairSpecScenario == SpecScenario /\ WF_vars(NextScenario)

----------------------------------------------------------------------------
(* decideNextAction and executeAction for a tradesperson (2 or 3) under the *)
(* Decision Service policy, over World States of one job of homeowner 1     *)
(* and up to MaxRespondOffers offers addressed to either tradesperson       *)

RespondOfferLists ==
    EntityLists(MaxRespondOffers, {2, 3} \X {"PENDING", "ACCEPTED"},
                LAMBDA i, c : [id |-> i, jobId |-> 1, homeownerId |-> 1,
                               tradespersonId |-> c[1], status |-> c[2]])

InitRespond ==
    \E os \in RespondOfferLists, u \in {2, 3} :
       LET w == [jobs |-> <<[id |-> 1, status |-> "OPEN", createdBy |-> 1,
                             budget |-> ScenarioBudget]>>,
                 applications |-> <<>>, offers |-> os, reviews |-> <<>>,
                 testUsers |-> CallRoster]
       IN \E response \in LLMResponsesIn(w) :
             InitCall("decideNextAction", w, CallRoster[u], TRUE, response)

SpecRespond == InitRespond /\ [][NextPolicy]_vars

----------------------------------------------------------------------------
(* decideNextAction and executeAction for a job-poster (homeowner 1 or      *)
(* business 4) under either policy, over World States of up to MaxViewJobs  *)
(* open jobs of either poster and applications of tradesperson 2 to them    *)

ViewJobLists ==
    EntityLists(MaxViewJobs, {1, 4},
                LAMBDA i, c : [id |-> i, status |-> "OPEN", createdBy |-> c,
                               budget |-> ScenarioBudget])

InitView ==
    \E js \in ViewJobLists, u \in {1, 4}, useLLM \in BOOLEAN :
      \E as \in PosterAppLists(js) :
         LET w == [jobs |-> js, applications |-> as, offers |-> <<>>, reviews |-> <<>>,
                   testUsers |-> CallRoster]
         IN \E response \in CallResponses(w, useLLM) :
               InitCall("decideNextAction", w, CallRoster[u], useLLM, response)

SpecView == InitView /\ [][NextPolicy]_vars

----------------------------------------------------------------------------
(* Properties *)

HasRole(role) == \E i \in 1..Len(testUsers) : testUsers[i].role = role

\* initialization left the run in 'running'
InitSucceeded == pc # "initialize_users" /\ HasRole("homeowner") /\ HasRole("tradesperson")

\* the four counts of World State against the thresholds, offers counted by
\* discarding every status that does not qualify
QualifyingOffers ==
    Len(offers) - Cardinality({i \in 1..Len(offers) :
        offers[i].status \in {"PENDING", "REJECTED", "WITHDRAWN", "EXPIRED"}})

ThresholdsMet ==
    /\ ~(Len(jobs) < simulationConfig.goals.minJobs)
    /\ ~(Len(applications) < simulationConfig.goals.minApplications)
    /\ ~(QualifyingOffers < simulationConfig.goals.minAcceptedOffers)
    /\ ~(Len(reviews) < simulationConfig.goals.minReviews)

\* C1: a run that stops at the iteration cap with the goals not met and at
\* most 20 accumulated errors ends 'completed'
C1_CapStopCompleted ==
    (/\ pc = "END"
     /\ InitSucceeded
     /\ currentIteration >= simulationConfig.goals.maxIterations
     /\ ~ThresholdsMet
     /\ errors <= ErrorCeiling)
    => status = "completed"

\* C2: a run whose initialization succeeded ends 'failed' exactly when more
\* than 20 errors accumulated
C2_FailedIffOverCeiling ==
    (pc = "END" /\ InitSucceeded) => (status = "failed" <=> errors > ErrorCeiling)

\* C3: a run whose initialization could not create the minimum role mix runs
\* no iteration and ends 'failed'
C3_InitFailureIsFinal ==
    (pc = "END" /\ ~InitSucceeded) => (currentIteration = 0 /\ status = "failed")

\* the state right after node initialize_users
AfterInitialization == pc = "shouldContinue" /\ currentIteration = 0

\* C4 (as claimed): initialization leaves 'running' exactly when a job-poster
\* of either role and a service-provider were created
C4_AnyPosterSuffices ==
    AfterInitialization =>
        (status = "running" <=>
            ((HasRole("homeowner") \/ HasRole("business")) /\ HasRole("tradesperson")))

\* C4 (amended): initialization leaves 'running' exactly when a homeowner and a
\* tradesperson were created; a business does not stand in for the homeowner
C4_HomeownerAndTradesperson ==
    AfterInitialization =>
        /\ status \in {"running", "failed"}
        /\ status = "running" <=> (HasRole("homeowner") /\ HasRole("tradesperson"))

C4_Witness ==
    /\ AfterInitialization
    /\ HasRole("business") /\ HasRole("tradesperson") /\ ~HasRole("homeowner")
    /\ status = "failed"

\* C5: at the conditional edge the loop runs another iteration exactly when
\* the status is not failed, the iteration counter is below maxIterations,
\* the goals are not met and at most 20 errors accumulated
C5_ContinueIff ==
    [][pc = "shouldContinue" =>
         (pc' = "autonomous_loop" <=>
            /\ status # "failed"
            /\ currentIteration < simulationConfig.goals.maxIterations
            /\ ~ThresholdsMet
            /\ errors <= ErrorCeiling)]_vars

\* an iteration ended with every actor waiting and no action taken, and the
\* loop goes on
C5_Witness ==
    /\ pc = "autonomous_loop"
    /\ currentIteration >= 1
    /\ waitingAgents = UserIds
    /\ ~anyActionTaken

\* C6: the iteration counter grows by one per iteration and never passes
\* maxIterations; cleanup and then finalize run exactly once on every path;
\* every run reaches END with status 'completed' or 'failed'
C6_Terminates ==
    /\ [](currentIteration <= simulationConfig.goals.maxIterations)
    /\ [][/\ pc = "autonomous_loop" => currentIteration' = currentIteration + 1
          /\ pc # "autonomous_loop" => currentIteration' = currentIteration
          /\ pc' = "cleanup" => pc = "shouldContinue"
          /\ pc = "cleanup" <=> pc' = "finalize"
          /\ pc = "finalize" <=> pc' = "END"
          /\ pc # "END"]_vars
    /\ <>(pc = "END" /\ status \in {"completed", "failed"})

C6_Witness ==
    /\ pc = "END"
    /\ currentIteration = simulationConfig.goals.maxIterations
    /\ currentIteration >= 2

\* C7: when all four thresholds are met at the conditional edge no further
\* iteration runs, and a run that ends with them met ends 'completed'
C7_GoalsMetCompleted ==
    /\ [][(pc = "shouldContinue" /\ ThresholdsMet) => pc' = "cleanup"]_vars
    /\ []((pc = "END" /\ ThresholdsMet) => status = "completed")

\* goals met after an iteration with more than 20 errors on the list
C7_Witness ==
    /\ pc = "END"
    /\ currentIteration >= 1
    /\ simulationConfig.goals.minJobs >= 1
    /\ ThresholdsMet
    /\ errors > ErrorCeiling
    /\ status = "completed"

LifecycleDone ==
    /\ Len(jobs) >= 1
    /\ \E a \in 1..Len(applications) : applications[a].status = "UR"
    /\ \E o \in 1..Len(offers) :
          /\ offers[o].status = "COMPLETED"
          /\ \E r \in 1..Len(reviews) : reviews[r].offerId = offers[o].id

\* C9: with one job-poster, one service-provider, the heuristic policy and
\* every tool call succeeding, under every shuffle order the run reaches the
\* completed lifecycle before the iteration cap, the goals {1,1,1,1} are then
\* met and the run ends 'completed'; an offer is completed only after it was
\* accepted and accepted only while pending
C9_EndToEnd ==
    /\ <>(pc = "END" /\ status = "completed" /\ LifecycleDone /\ ThresholdsMet)
    /\ [](pc = "END" => currentIteration < MaxIterE2E)
    /\ [][\A o \in 1..Len(offers) :
            /\ offers'[o].status = "ACCEPTED" => offers[o].status \in {"PENDING", "ACCEPTED"}
            /\ offers'[o].status = "COMPLETED" => offers[o].status \in {"ACCEPTED", "COMPLETED"}]_vars

C9_Witness ==
    /\ pc = "END"
    /\ status = "completed"
    /\ LifecycleDone
    /\ ThresholdsMet
    /\ Len(reviews) = 1

\* some action of the current step put a new entry on the actor's menu
GainsAction(user) ==
    LET before == getAvailableActions(World, user)
        after == getAvailableActions(
                    [jobs |-> jobs', applications |-> applications', offers |-> offers',
                     reviews |-> reviews', testUsers |-> testUsers'], user)
    IN \E i \in 1..Len(after) : ~Includes(before, after[i])

\* C10: once another actor's action gives a skipped actor a new available
\* action, that actor is evaluated again: it no longer meets the stall test
C10_SkippedActorResumes ==
    [][\A i \in 1..Len(testUsers) :
          (testUsers[i].id \in skippedAgents /\ GainsAction(testUsers[i]))
          => ~IsSkipped(testUsers[i], waitingAgents', lastActionByAgent',
                        currentIteration', simulationConfig')]_vars

\* C11: in a turn the actor is skipped, with nothing computed, decided or
\* executed, exactly when it is in the waiting set and currentIteration minus
\* its last-productive iteration is greater than maxWaitCycles; an evaluated
\* actor ends the turn in the waiting set exactly when its availability is
\* empty or the policy gave no decision (nothing was executed); its
\* last-productive iteration becomes the current iteration exactly when the
\* executed action succeeded
C11_StallBookkeeping ==
    [][pc = "turn" =>
        LET a == Head(shuffledAgents)
            stalled == /\ a.id \in waitingAgents
                       /\ currentIteration - lastActionByAgent[a.id]
                             > simulationConfig.maxWaitCycles
            executed == Len(actionHistory') = Len(actionHistory) + 1
            succeeded == executed /\ actionHistory'[Len(actionHistory')].success
        IN /\ (a.id \in skippedAgents') <=> stalled
           /\ stalled => UNCHANGED <<waitingAgents, lastActionByAgent, actionHistory,
                                      jobs, applications, offers, reviews, errors>>
           /\ ~stalled =>
                 ((a.id \in waitingAgents')
                     <=> (Len(getAvailableActions(World, a)) = 0 \/ ~executed))
           /\ waitingAgents' \ {a.id} = waitingAgents \ {a.id}
           /\ \A i \in 1..Len(testUsers) :
                 lastActionByAgent'[i] =
                    IF i = a.id /\ succeeded THEN currentIteration
                    ELSE lastActionByAgent[i]]_vars

\* an actor has been skipped in a run that saw a failed and a successful action
C11_Witness ==
    /\ skippedAgents # {}
    /\ \E i, j \in 1..Len(actionHistory) :
          /\ ~actionHistory[i].success
          /\ actionHistory[j].success
          /\ lastActionByAgent[actionHistory[i].userId] = 0

\* the availability set a stand-alone getAvailableActions call returned
AvailableSet == {availableResult[i] : i \in 1..Len(availableResult)}

IsJobPoster == actor.role \in {"homeowner", "business"}

\* facts of World State about the actor, stated on the entity lists
OwnsJob == \E j \in 1..Len(jobs) : jobs[j].createdBy = actor.id

HasApplicationToOwnJob ==
    \E a \in 1..Len(applications), j \in 1..Len(jobs) :
        jobs[j].createdBy = actor.id /\ applications[a].jobId = jobs[j].id

OwnsOfferIn(st) ==
    \E o \in 1..Len(offers) : offers[o].homeownerId = actor.id /\ offers[o].status = st

OwnsUnreviewedCompletedOffer ==
    \E o \in 1..Len(offers) :
        /\ offers[o].homeownerId = actor.id
        /\ offers[o].status = "COMPLETED"
        /\ ~\E r \in 1..Len(reviews) : reviews[r].offerId = offers[o].id

OwnApplicationCount ==
    Cardinality({a \in 1..Len(applications) : applications[a].applicantId = actor.id})

HasJobToApplyTo ==
    \E j \in 1..Len(jobs) :
        /\ jobs[j].status = "OPEN"
        /\ jobs[j].createdBy # actor.id
        /\ ~\E a \in 1..Len(applications) :
              applications[a].applicantId = actor.id /\ applications[a].jobId = jobs[j].id

HasPendingOfferToActor ==
    \E o \in 1..Len(offers) :
        offers[o].tradespersonId = actor.id /\ offers[o].status = "PENDING"

\* C12: for a job-poster, create_job is always available; view_applications
\* iff the actor created a job; make_offer iff an application exists against
\* one of its jobs; complete_job iff it owns an ACCEPTED offer; leave_review
\* iff it owns a COMPLETED offer without a review
C12_PosterAvailability ==
    (pc = "returned" /\ IsJobPoster) =>
        /\ "create_job" \in AvailableSet
        /\ ("view_applications" \in AvailableSet) <=> OwnsJob
        /\ ("make_offer" \in AvailableSet) <=> HasApplicationToOwnJob
        /\ ("complete_job" \in AvailableSet) <=> OwnsOfferIn("ACCEPTED")
        /\ ("leave_review" \in AvailableSet) <=> OwnsUnreviewedCompletedOffer

\* a business with an application to its job and a completed offer to review,
\* and no accepted offer
C12_Witness ==
    /\ pc = "returned"
    /\ actor.role = "business"
    /\ {"make_offer", "leave_review"} \subseteq AvailableSet
    /\ "complete_job" \notin AvailableSet

\* C13 as stated: for both job-poster roles shortlist is available iff
\* make_offer is, and nothing outside the six job-poster actions is available
C13_ShortlistBothRoles ==
    (pc = "returned" /\ IsJobPoster) =>
        /\ ("shortlist_applicant" \in AvailableSet) <=> ("make_offer" \in AvailableSet)
        /\ AvailableSet \subseteq {"create_job", "view_applications", "shortlist_applicant",
                                   "make_offer", "complete_job", "leave_review"}

\* C13 amended: a homeowner has shortlist exactly when it has make_offer and
\* nothing outside the six homeowner actions; a business never has shortlist,
\* always has view_offers, and nothing outside the six business actions
C13_ShortlistHomeownerOnly ==
    /\ (pc = "returned" /\ actor.role = "homeowner") =>
          /\ ("shortlist_applicant" \in AvailableSet) <=> HasApplicationToOwnJob
          /\ ("make_offer" \in AvailableSet) <=> HasApplicationToOwnJob
          /\ AvailableSet \subseteq {"create_job", "view_applications",
                                     "shortlist_applicant", "make_offer", "complete_job",
                                     "leave_review"}
    /\ (pc = "returned" /\ actor.role = "business") =>
          /\ "shortlist_applicant" \notin AvailableSet
          /\ "view_offers" \in AvailableSet
          /\ AvailableSet \subseteq {"create_job", "view_applications", "make_offer",
                                     "view_offers", "complete_job", "leave_review"}

\* a business that may make an offer and is not offered shortlist
C13_Witness ==
    /\ pc = "returned"
    /\ actor.role = "business"
    /\ HasApplicationToOwnJob
    /\ "make_offer" \in AvailableSet
    /\ "shortlist_applicant" \notin AvailableSet

\* C14 as stated: for a service-provider apply_to_job is available iff an
\* OPEN job exists that it did not create and has not applied to, and it has
\* fewer than 5 applications
C14_ApplyNeedsOpenJob ==
    (pc = "returned" /\ actor.role = "tradesperson") =>
        (("apply_to_job" \in AvailableSet)
            <=> (HasJobToApplyTo /\ OwnApplicationCount < 5))

\* C14 amended: for a service-provider apply_to_job is available iff it has
\* fewer than 5 applications, whatever jobs World State holds
C14_ApplyUnderCap ==
    (pc = "returned" /\ actor.role = "tradesperson") =>
        (("apply_to_job" \in AvailableSet) <=> OwnApplicationCount < 5)

\* a provider is offered apply_to_job though World State holds no job
C14_Witness ==
    /\ pc = "returned"
    /\ actor.role = "tradesperson"
    /\ jobs = <<>>
    /\ "apply_to_job" \in AvailableSet

\* C15: for a service-provider browse_jobs, view_offers and view_reviews are
\* always available, and accept_offer and reject_offer are available iff an
\* offer addressed to the actor is PENDING
C15_ProviderAvailability ==
    (pc = "returned" /\ actor.role = "tradesperson") =>
        /\ {"browse_jobs", "view_offers", "view_reviews"} \subseteq AvailableSet
        /\ ("accept_offer" \in AvailableSet) <=> HasPendingOfferToActor
        /\ ("reject_offer" \in AvailableSet) <=> HasPendingOfferToActor

\* the only PENDING offer is addressed to the other provider
C15_Witness ==
    /\ pc = "returned"
    /\ actor.role = "tradesperson"
    /\ \E o \in 1..Len(offers) :
          offers[o].status = "PENDING" /\ offers[o].tradespersonId # actor.id
    /\ "accept_offer" \notin AvailableSet

\* the availability set of the acting user in the current World State
ActorAvailable ==
    {getAvailableActions(World, actor)[i] :
        i \in 1..Len(getAvailableActions(World, actor))}

\* the fixed priority list of each kind of actor
JobPosterPriority ==
    <<"leave_review", "complete_job", "make_offer", "view_applications", "create_job">>

ProviderPriority ==
    <<"accept_offer", "apply_to_job", "browse_jobs", "view_offers", "view_reviews">>

ActorPriority == IF IsJobPoster THEN JobPosterPriority ELSE ProviderPriority

\* C16: with useLLM false the decision's action is the first entry of the
\* actor's fixed priority list that is in its availability set, so it is a
\* function of the availability set and the role alone
C16_HeuristicPriority ==
    (pc = "decided" /\ ~simulationConfig.useLLM) =>
        \E k \in 1..Len(ActorPriority) :
           /\ decisionResult.action = ActorPriority[k]
           /\ ActorPriority[k] \in ActorAvailable
           /\ \A j \in 1..(k - 1) : ActorPriority[j] \notin ActorAvailable

\* the heuristic picks complete_job over an available make_offer, and
\* apply_to_job over browse_jobs
C16_Witness ==
    /\ pc = "decided"
    /\ ~simulationConfig.useLLM
    /\ \/ decisionResult.action = "complete_job" /\ "make_offer" \in ActorAvailable
       \/ decisionResult.action = "apply_to_job" /\ "accept_offer" \notin ActorAvailable

\* C17: a returned decision's action is in the availability set computed for
\* that actor and World State, an unavailable suggestion is never executed,
\* and with useLLM false and a non-empty availability set the decision is
\* never null
C17_DecisionIsAvailable ==
    /\ [](pc = "decided" =>
            /\ decisionResult # NoDecision => decisionResult.action \in ActorAvailable
            /\ (~simulationConfig.useLLM /\ ActorAvailable # {}) =>
                   decisionResult # NoDecision)
    /\ [][(pc = "decided" /\ pc' = "executed") =>
             /\ decisionResult.action \in ActorAvailable
             /\ (llmResponse.action \notin ActorAvailable) =>
                    decisionResult.action # llmResponse.action]_vars

\* the Decision Service names an action the actor may not take and another,
\* available one is returned
C17_Witness ==
    /\ pc = "decided"
    /\ simulationConfig.useLLM
    /\ llmResponse.kind = "answer"
    /\ llmResponse.action \in ActionNames \ ActorAvailable
    /\ decisionResult # NoDecision
    /\ decisionResult.action \in ActorAvailable

\* the Decision Service's answer fails: the call throws, the text does not
\* parse, or the action named is not in the availability set
ServiceFailed ==
    /\ simulationConfig.useLLM
    /\ \/ llmResponse.kind \in {"throws", "unparsable"}
       \/ llmResponse.kind = "answer" /\ llmResponse.action \notin ActorAvailable

\* what the deterministic fallback may return for the same state
FallbackDecision ==
    {decideNextActionWith(World, actor, FALSE, NoResponse, random) : random \in RandomDraws}

\* decideNextAction changes nothing but the value it returns
DecidingAddsNothing ==
    [][pc = "decideNextAction" =>
          UNCHANGED <<errors, jobs, applications, offers, reviews, actionHistory>>]_vars

\* C18 as stated: on every failure of the Decision Service, a wait or no-op
\* name included, the decision is exactly the fallback's and never null, and
\* nothing is added to the error list, the entity lists or the history
C18_EveryFailureFallsBack ==
    /\ [](( pc = "decided" /\ ServiceFailed) =>
             (decisionResult \in FallbackDecision /\ decisionResult # NoDecision))
    /\ DecidingAddsNothing

\* C18 amended: on every failure of the Decision Service other than the
\* answer WAIT the decision is exactly the fallback's and never null; the
\* answer WAIT gives the null decision; in both cases nothing is added to
\* the error list, the entity lists or the history
C18_FailureFallsBackUnlessWait ==
    /\ [](( pc = "decided" /\ ServiceFailed /\ llmResponse.action # "WAIT") =>
             (decisionResult \in FallbackDecision /\ decisionResult # NoDecision))
    /\ [](( pc = "decided" /\ simulationConfig.useLLM /\ llmResponse.kind = "answer"
                /\ llmResponse.action = "WAIT") =>
             decisionResult = NoDecision)
    /\ DecidingAddsNothing

\* the call throws and the fallback's decision is returned
C18_Witness ==
    /\ pc = "decided"
    /\ llmResponse.kind = "throws"
    /\ decisionResult \in FallbackDecision
    /\ decisionResult # NoDecision

\* the Decision Service names an available action that needs an entity and
\* gives no concrete params, and World State holds a matching candidate
NeedsSynthesis ==
    /\ simulationConfig.useLLM
    /\ llmResponse.kind = "answer"
    /\ llmResponse.params = EmptyParams
    /\ llmResponse.action \in {"apply_to_job", "make_offer", "accept_offer",
                                "reject_offer", "complete_job", "leave_review"}
    /\ llmResponse.action \in ActorAvailable
    /\ \E random \in RandomDraws :
          generateActionParams(World, actor, llmResponse.action, random) # EmptyParams

\* C19: when the Decision Service names an available entity-needing action
\* without concrete params, the decision carries params naming a matching
\* candidate, so executing make_offer, complete_job, leave_review or
\* reject_offer does not fail for lack of an id
C19_ParamsSynthesised ==
    /\ []((pc = "decided" /\ NeedsSynthesis) =>
             \E random \in RandomDraws :
                decisionResult.params =
                   generateActionParams(World, actor, llmResponse.action, random))
    /\ [][(pc = "decided" /\ pc' = "executed" /\ NeedsSynthesis
              /\ llmResponse.action \in {"make_offer", "complete_job", "leave_review",
                                          "reject_offer"}) =>
             actionHistory'[Len(actionHistory')].success]_vars

\* C20: every executed decision, successful or not, appends exactly one
\* record to the action history, nothing else changes the history, and the
\* history before a step is a prefix of the history after it
C20_HistoryAppendOnly ==
    [][/\ Len(actionHistory') \in {Len(actionHistory), Len(actionHistory) + 1}
       /\ \A i \in 1..Len(actionHistory) : actionHistory'[i] = actionHistory[i]
       /\ pc # "turn" => actionHistory' = actionHistory
       /\ (pc = "turn" /\ \/ errors' # errors
                          \/ World' # World
                          \/ lastActionByAgent' # lastActionByAgent) =>
             Len(actionHistory') = Len(actionHistory) + 1
       /\ Len(actionHistory') = Len(actionHistory) + 1 =>
             /\ actionHistory'[Len(actionHistory')].userId = shuffledAgents[1].id
             /\ actionHistory'[Len(actionHistory')].success <=> errors' = errors]_vars

\* the history holds a failed record followed by a successful one
C20_Witness ==
    \E i \in 1..Len(actionHistory) :
       /\ ~actionHistory[i].success
       /\ i < Len(actionHistory)
       /\ actionHistory[Len(actionHistory)].success

\* a step that pushes an unsuccessful ActionResult
FailedExecution ==
    /\ Len(actionHistory') = Len(actionHistory) + 1
    /\ ~actionHistory'[Len(actionHistory')].success

\* C21: an executed action that fails, by a throwing tool call or for lack
\* of a required parameter, leaves the four entity lists and every status in
\* them as they were, adds exactly one error and one message, pushes a
\* record with success false and the error set, and the run goes on: the
\* run's status is unchanged and the loop moves to the next actor
C21_FailureIsRecoverable ==
    [][FailedExecution =>
          /\ UNCHANGED <<jobs, applications, offers, reviews, status>>
          /\ errors' = errors + 1
          /\ messages' = messages + 1
          /\ actionHistory'[Len(actionHistory')].error
          /\ pc' \in {"turn", "shouldContinue"}
          /\ shuffledAgents' = Tail(shuffledAgents)]_vars

\* a tradesperson's apply_to_job, available with no job to apply to, failed
\* and the loop is at the next actor's turn
C21_Witness ==
    /\ pc = "turn"
    /\ jobs = <<>>
    /\ status = "running"
    /\ actionHistory # <<>>
    /\ ~actionHistory[Len(actionHistory)].success
    /\ actionHistory[Len(actionHistory)].error
    /\ messages = Len(testUsers) + Len(actionHistory)
    /\ \E i \in 1..Len(testUsers) :
          /\ testUsers[i].id = actionHistory[Len(actionHistory)].userId
          /\ testUsers[i].role = "tradesperson"

\* C22: a failure in one actor's turn aborts neither the iteration nor the
\* run: every turn, failed or not, hands over to the next actor of the
\* shuffled order (or ends the iteration after the last one) with the run's
\* status and the iteration counter as they were; a failed execution leaves
\* its actor out of the waiting set, only an actor in the waiting set is
\* ever skipped, and only an actor's own turn changes its membership, so
\* the failing actor is evaluated again at its next turn
C22_TurnNeverAborts ==
    [][pc = "turn" =>
          LET agent == Head(shuffledAgents)
          IN /\ shuffledAgents' = Tail(shuffledAgents)
             /\ pc' = IF Tail(shuffledAgents) = <<>> THEN "shouldContinue" ELSE "turn"
             /\ status' = status
             /\ currentIteration' = currentIteration
             /\ FailedExecution =>
                   /\ agent.id \notin waitingAgents'
                   /\ errors' = errors + 1
             /\ agent.id \in skippedAgents' => agent.id \in waitingAgents
             /\ \A u \in UserIds \ {agent.id} :
                   u \in waitingAgents' <=> u \in waitingAgents]_vars

\* in the first iteration one actor's action failed and the other actor then
\* had its turn and acted
C22_Witness ==
    /\ currentIteration = 1
    /\ Len(actionHistory) = 2
    /\ ~actionHistory[1].success
    /\ actionHistory[2].userId # actionHistory[1].userId
    /\ actionHistory[1].userId \notin waitingAgents
    /\ status = "running"

\* the decision about to be executed names this action
Decided(action) == pc = "decided" /\ decisionResult.action = action

\* the step executes the decided action and the pushed record is successful
Executes(action) ==
    /\ Decided(action)
    /\ pc' = "turn"
    /\ actionHistory'[Len(actionHistory')].success

\* the offer a decided accept_offer acts on: the id of its params, else the
\* first PENDING offer of World State (0: none)
AcceptTarget ==
    LET firstPending == FindFirst(offers, LAMBDA o : o.status = "PENDING")
    IN IF decisionResult.params.offerId # 0 THEN decisionResult.params.offerId
       ELSE IF firstPending # 0 THEN offers[firstPending].id ELSE 0

\* C23: a decision to accept an offer never names an Offer that is not
\* PENDING, and a successful accept_offer on a PENDING Offer sets it to
\* ACCEPTED and its Job to IN_PROGRESS
C23_AcceptOnlyPending ==
    /\ [](Decided("accept_offer") =>
             (AcceptTarget # 0 => offers[AcceptTarget].status = "PENDING"))
    /\ [][(Executes("accept_offer") /\ offers[AcceptTarget].status = "PENDING") =>
             /\ offers'[AcceptTarget].status = "ACCEPTED"
             /\ jobs'[offers[AcceptTarget].jobId].status = "IN_PROGRESS"]_vars

\* C24: a successful complete_job on an ACCEPTED Offer sets the Offer to
\* COMPLETED and the status of the Offer's Job to COMPLETED
C24_CompleteSetsOfferAndJob ==
    [][(Executes("complete_job")
           /\ offers[decisionResult.params.offerId].status = "ACCEPTED") =>
          /\ offers'[decisionResult.params.offerId].status = "COMPLETED"
          /\ jobs'[offers[decisionResult.params.offerId].jobId].status = "COMPLETED"]_vars

\* the status changes an Offer may go through
OfferTransitions ==
    {<<"PENDING", "ACCEPTED">>, <<"PENDING", "REJECTED">>, <<"ACCEPTED", "COMPLETED">>}

\* C25: an Offer enters World State PENDING, its status changes only along
\* PENDING -> ACCEPTED, PENDING -> REJECTED and ACCEPTED -> COMPLETED (so
\* REJECTED and COMPLETED are final and a PENDING offer is never completed
\* directly), and no Offer is ever WITHDRAWN or EXPIRED
C25_OfferLifecycle ==
    /\ [](\A i \in 1..Len(offers) : offers[i].status \notin {"WITHDRAWN", "EXPIRED"})
    /\ [][/\ Len(offers') >= Len(offers)
          /\ \A i \in 1..Len(offers') :
                IF i > Len(offers) THEN offers'[i].status = "PENDING"
                ELSE \/ offers'[i].status = offers[i].status
                     \/ <<offers[i].status, offers'[i].status>> \in OfferTransitions]_vars

\* C26: in every World State no two Reviews name the same Offer and every
\* Review names an Offer whose status is COMPLETED, whether the review's
\* params came from the fallback or from the Decision Service
C26_OneReviewPerCompletedOffer ==
    /\ \A r \in 1..Len(reviews) :
          \E i \in 1..Len(offers) :
             offers[i].id = reviews[r].offerId /\ offers[i].status = "COMPLETED"
    /\ \A r1, r2 \in 1..Len(reviews) :
          r1 # r2 => reviews[r1].offerId # reviews[r2].offerId

\* the decision was made by the fallback: the policy switch is off, or the
\* Decision Service failed
ByFallback == ~simulationConfig.useLLM \/ ServiceFailed

\* offer i is COMPLETED, owned by the actor and has no Review
Reviewable(i) ==
    /\ offers[i].status = "COMPLETED"
    /\ offers[i].homeownerId = actor.id
    /\ \A r \in 1..Len(reviews) : reviews[r].offerId # offers[i].id

C28_OneAcceptedOfferPerJob ==
    \A j \in 1..Len(jobs) :
       Cardinality({i \in 1..Len(offers) :
                       offers[i].jobId = jobs[j].id /\ offers[i].status = "ACCEPTED"}) <= 1

\* C29: in every World State no two Applications have the same applicant and
\* the same Job
C29_OneApplicationPerActorAndJob ==
    \A a1, a2 \in 1..Len(applications) :
       a1 # a2 => \/ applications[a1].applicantId # applications[a2].applicantId
                  \/ applications[a1].jobId # applications[a2].jobId

\* the number of an actor's Applications in a list
ApplicationsOf(apps, id) == CountIf(apps, LAMBDA a : a.applicantId = id)

FirstOpenJob ==
    FindFirst(jobs, LAMBDA job :
        /\ job.status = "OPEN"
        /\ job.createdBy # actor.id
        /\ \A a \in 1..Len(applications) :
              applications[a].applicantId = actor.id => applications[a].jobId # job.id)

\* C31: under the fallback policy an apply_to_job decision names the first
\* OPEN job the actor neither created nor applied to, and its estimated cost
\* lies between 0.8 and 1.2 times that job's budget
C31_ApplyTargetAndCost ==
    (/\ pc = "decided"
     /\ ~simulationConfig.useLLM
     /\ decisionResult.action = "apply_to_job"
     /\ FirstOpenJob # 0)
    => /\ decisionResult.params.jobId = jobs[FirstOpenJob].id
       /\ 80 * jobs[FirstOpenJob].budget <= 100 * decisionResult.params.estimatedCost
       /\ 100 * decisionResult.params.estimatedCost <= 120 * jobs[FirstOpenJob].budget

Requested(role) ==
    CASE role = "homeowner" -> simulationConfig.homeownerCount
      [] role = "tradesperson" -> simulationConfig.tradespersonCount
      [] role = "business" -> simulationConfig.businessCount

RequestedTotal == Requested("homeowner") + Requested("tradesperson") + Requested("business")

\* C32: initialize_users appends one error per failed creation (and one more
\* only when the role mix is violated), leaves no failed actor in the roster
\* or in the per-actor bookkeeping, creates no more actors of a role than
\* requested, and sets the status to 'running' unless a homeowner or a
\* tradesperson is missing
C32_FailedCreationIsLocal ==
    [][pc = "initialize_users" =>
         LET created == Len(testUsers')
             mix == /\ \E i \in 1..created : testUsers'[i].role = "homeowner"
                    /\ \E i \in 1..created : testUsers'[i].role = "tradesperson"
         IN /\ \A role \in {"homeowner", "tradesperson", "business"} :
                  CountIf(testUsers', LAMBDA u : u.role = role) <= Requested(role)
            /\ errors' = errors + (RequestedTotal - created) + (IF mix THEN 0 ELSE 1)
            /\ DOMAIN lastActionByAgent' = {testUsers'[i].id : i \in 1..created}
            /\ waitingAgents' = {}
            /\ status' = IF mix THEN "running" ELSE "failed"
            /\ pc' = "shouldContinue"]_vars

\* creations failed, one error each, and the run is 'running' with the
\* reduced roster
C32_Witness ==
    /\ pc = "shouldContinue"
    /\ currentIteration = 0
    /\ status = "running"
    /\ Len(testUsers) < RequestedTotal
    /\ errors = RequestedTotal - Len(testUsers)

\* C33: identities are deleted by the cleanup pass only, and a run started
\* with skipCleanup = true deletes none
C33_NoCleanupKeepsUsers ==
    /\ [](skipCleanup => deletedUsers = {})
    /\ [][deletedUsers' # deletedUsers => pc = "cleanup"]_vars

JobPosters == CountIf(testUsers, LAMBDA u : u.role \in {"homeowner", "business"})

C35_OneActionPerActorAndIteration ==
    ~simulationConfig.useLLM =>
       /\ waitingAgents = {}
       /\ skippedAgents = {}
       /\ pc \in {"shouldContinue", "cleanup", "finalize", "END"}
             => Len(actionHistory) = currentIteration * Len(testUsers)
       /\ pc = "turn"
             => Len(actionHistory) + Len(shuffledAgents) = currentIteration * Len(testUsers)

\* two iterations of two actors are over, with a failed action among the four
C35_Witness ==
    /\ ~simulationConfig.useLLM
    /\ pc = "shouldContinue"
    /\ currentIteration = 2
    /\ Len(testUsers) = 2
    /\ Len(actionHistory) = 4
    /\ \E i \in 1..4 : ~actionHistory[i].success

\* the last entry of a list that grew by one names the id under `field`
NewEntryNames(before, after, field, id) ==
    Len(after) > Len(before) => after[Len(after)][field] = id

\* C36: executeAction for an actor pushes an ActionResult with the actor's
\* id, every Job, Application or Offer it creates carries the actor as
\* creator, applicant or poster, and the roster is the same list afterwards
C36_ActsAsTheActor ==
    [][(pc = "decided" /\ pc' = "executed") =>
          /\ testUsers' = testUsers
          /\ Len(actionHistory') = Len(actionHistory) + 1
          /\ actionHistory'[Len(actionHistory')].userId = actor.id
          /\ NewEntryNames(jobs, jobs', "createdBy", actor.id)
          /\ NewEntryNames(applications, applications', "applicantId", actor.id)
          /\ NewEntryNames(offers, offers', "homeownerId", actor.id)]_vars

\* the second tradesperson of the roster has applied to a job
C36_Witness ==
    /\ pc = "executed"
    /\ actor = CallRoster[3]
    /\ CallRoster[2].role = "tradesperson"
    /\ decisionResult.action = "apply_to_job"
    /\ actionHistory = <<[userId |-> 3, success |-> TRUE, error |-> FALSE]>>
    /\ applications[Len(applications)].applicantId = 3

\* C37: an executed accept_offer or reject_offer by a service-provider
\* changes only Offers addressed to that provider, also when the Decision
\* Service chose accept_offer without an offerId
C37_RespondsToOwnOffersOnly ==
    [][(pc = "decided" /\ pc' = "executed"
        /\ decisionResult.action \in {"accept_offer", "reject_offer"}) =>
          \A i \in 1..Len(offers) :
             offers'[i] # offers[i] => offers[i].tradespersonId = actor.id]_vars

\* C38: an executed view_applications by a job-poster queries a Job created
\* by that poster, with or without a jobId in the decision: the application
\* entries its rows replace all belong to Jobs the actor created
C38_ViewsOwnJobsOnly ==
    [][(pc = "decided" /\ pc' = "executed" /\ decisionResult.action = "view_applications") =>
          \A i \in 1..Len(applications) :
             applications'[i] # applications[i] =>
                jobs[applications[i].jobId].createdBy = actor.id]_vars

\* every role the scenario's steps need has a user
AllRolesCreated == Len(testUsers) = Len(NeededRoles(currentScenario.steps))

\* C39: in a scripted run currentStepIndex changes only in execute_step and
\* then by exactly one, whatever the step's result, and the step at that
\* index is the one run; a running scenario goes on to the next step while
\* one is left and leaves the loop exactly when currentStepIndex is the
\* number of steps; when a needed role could not be created no step runs
C39_StepsInOrderOnce ==
    /\ [][/\ currentStepIndex' # currentStepIndex => pc = "execute_step"
          /\ pc = "execute_step" =>
                /\ currentStepIndex < Len(currentScenario.steps)
                /\ currentStepIndex' = currentStepIndex + 1
                /\ Len(actionHistory') \in {Len(actionHistory), Len(actionHistory) + 1}
                /\ Len(actionHistory') > Len(actionHistory) =>
                      LET step == currentScenario.steps[currentStepIndex + 1]
                          user == testUsers[actionHistory'[Len(actionHistory')].userId]
                      IN user.role = step.agent
          /\ pc # "execute_step" =>
                UNCHANGED <<jobs, applications, offers, reviews, actionHistory>>
          /\ (pc = "shouldContinue" /\ status = "running") =>
                /\ pc' \in {"execute_step", "cleanup"}
                /\ pc' = "cleanup" <=> currentStepIndex = Len(currentScenario.steps)]_vars
    /\ []((pc # "initialize_users" /\ ~AllRolesCreated) =>
             /\ currentStepIndex = 0
             /\ actionHistory = <<>>
             /\ pc # "execute_step")

\* a scenario of three steps has left the loop after its first step failed
\* and its second succeeded
C39_Witness ==
    /\ pc = "cleanup"
    /\ Len(currentScenario.steps) = 3
    /\ currentStepIndex = 3
    /\ Len(actionHistory) = 3
    /\ ~actionHistory[1].success
    /\ actionHistory[2].success

\* C40: finalize of a scripted run sets the status to completed exactly when
\* the error list is empty, so a failed creation, a failed step or a thrown
\* step leaves the run failed; cleanup is entered from the conditional edge
\* only, is followed by finalize and then END, and every run gets there
C40_FinalStatusAndSingleCleanup ==
    /\ [][/\ pc = "finalize" => (status' = "completed" <=> errors = 0)
          /\ pc = "finalize" => pc' = "END"
          /\ pc = "cleanup" => pc' = "finalize"
          /\ pc' = "cleanup" => pc = "shouldContinue"
          /\ pc # "END"]_vars
    /\ [](pc = "END" =>
             /\ status \in {"completed", "failed"}
             /\ status = "completed" <=> errors = 0
             /\ ~AllRolesCreated => status = "failed"
             /\ (\E i \in 1..Len(actionHistory) : ~actionHistory[i].success) =>
                   status = "failed"
             /\ (\E i \in 1..Len(currentScenario.steps) :
                    currentScenario.steps[i].agent = "admin") => status = "failed")
    /\ <>(pc = "END")

\* a run whose users were all created ends failed after one failed step
C40_Witness ==
    /\ pc = "END"
    /\ AllRolesCreated
    /\ status = "failed"
    /\ errors = 1
    /\ Len(actionHistory) = 2
    /\ actionHistory[1].success
    /\ ~actionHistory[2].success

====
